---- MODULE Spec2Model ----
(***************************************************************************)
(* A model of pydjimqtt's protocol runtime:                                *)
(*   - request/reply correlation (MQTTClient.publish, MQTTClient.          *)
(*     _on_message, MQTTClient.cleanup_request, ServiceCaller.call),       *)
(*     specification SpecRPC (FairSpecRPC adds the scheduler's fairness),  *)
(*     and SpecResolve: one call answered by any reply the format allows;  *)
(*   - the DRC connection manager (DRCConnectionManager and the heartbeat  *)
(*     threads it owns), specification SpecMon; SpecObserver adds the      *)
(*     state-change observer and the threads _set_state starts for it      *)
(*     (FairSpecObserver: the monitor thread is scheduled fairly);         *)
(*   - the message router and the telemetry cache (MQTTClient._on_message  *)
(*     and the accessors): SpecRouter handles any message, SpecReader has  *)
(*     a caller that reads the cache and mutates what it was returned;     *)
(*   - MQTTClient.wait_for_flyto_event (SpecFlyto) and MQTTClient.         *)
(*     is_online (SpecOnline), with a clock that ticks in seconds;         *)
(*   - the heartbeat loop with stop_heartbeat (SpecHeartbeat) and with the *)
(*     stick-control commands published beside it (SpecDown);              *)
(*   - MQTTClient.connect with the broker's answer (SpecConnect);          *)
(*   - the names the package imports from its modules (SpecImport);        *)
(*   - a call's publish step by step (SpecPublish), the OSD callbacks      *)
(*     (SpecCallbacks), the first step of each observer thread             *)
(*     (SpecDelivery), take_photo_wait and the handler it swaps            *)
(*     (SpecPhoto), fly_to_point with monitor_flyto_progress (SpecTask).   *)
(*                                                                         *)
(* Python values: a dictionary key that may be missing is a sequence of    *)
(* length 0 (missing, dict.get gives None) or 1 (present with that value). *)
(* In the request/reply and manager parts time is abstract: a wait with a  *)
(* timeout may end by its event or by its timeout, whichever the scheduler *)
(* lets happen first.                                                      *)
(* `except TimeoutError` in ServiceCaller.call is taken to catch the       *)
(* TimeoutError of concurrent.futures (they are one class from Python      *)
(* 3.11 on).                                                               *)
(***************************************************************************)
EXTENDS Integers, Sequences, FiniteSets, TLC

VARIABLES
    \* ---- MQTTClient / ServiceCaller ----
    pending_requests, \* MQTTClient.pending_requests: a set of <<tid, future>>
    futures,          \* the Future created by each call: its state and value
    setCount,         \* per future: how often set_result/set_exception ran on it
    callPc,           \* each ServiceCaller.call: where its thread is
    callTid,          \* each call's transaction id (uuid4), None before it
    outcomes,         \* per call: what call() gave its caller, in order
    resolvedBy,       \* per future: the reply that resolved it, None before
    replied,          \* per call: a message carrying its tid has been handled
    discarded,        \* per call: such a message found no entry for the tid
    cleanedAgain,     \* per call: cleanup_request ran again after its timeout
    \* ---- DRCConnectionManager ----
    state,              \* DRCConnectionManager.state
    stop_flag,          \* DRCConnectionManager.stop_flag (threading.Event)
    heartbeat_thread,   \* DRCConnectionManager.heartbeat_thread: None or a thread
    reconnect_attempts, \* DRCConnectionManager.reconnect_attempts
    monPc,              \* the monitor thread: where it is in _monitor_loop
    attempt,            \* the for loop's variable `attempt` (0 before the first)
    stopPc,             \* the thread calling stop(): where it is
    joinTarget,         \* the thread each stop_heartbeat call in progress joins
    telemetry_fresh,    \* what MQTTClient.is_online(offline_timeout) returns now
    hbAlive,            \* heartbeat threads whose heartbeat_loop is running
    hbStop,             \* heartbeat threads whose stop_flag is set
    failures,           \* _reconnect_drc calls of this cycle that returned False
    lastResult,         \* what the last _reconnect_drc call of this cycle returned
    callLog,            \* how each service call of the attempt begun last ended
    on_state_change,    \* DRCConnectionManager.on_state_change is set (not None)
    notified,           \* the new_state of each observer thread _set_state started
                        \* since the current reconnection cycle began, in order
    obsRunning,         \* the new_state of the observer threads that have not ended
    begun,              \* the threads of `notified` (by position) whose call of
                        \* on_state_change was followed from its first step, in
                        \* the order the calls began
    told,               \* the new_state of the call of on_state_change begun last
    \* ---- MQTTClient: the telemetry cache ----
    osd_data,         \* MQTTClient.osd_data
    drone_state,      \* MQTTClient.drone_state
    topo_data,        \* MQTTClient.topo_data
    camera_osd,       \* MQTTClient.camera_osd
    flyto_progress,   \* MQTTClient.flyto_progress
    takeoff_height,   \* MQTTClient.takeoff_height
    last_osd_time,    \* MQTTClient._last_osd_time
    osd_timestamps,   \* MQTTClient._osd_timestamps
    heap,             \* the list objects json.loads made, by the message they came in
    clock,            \* time.time(), in seconds
    raised_out,       \* an exception has left _on_message (the network loop died)
    handled,          \* messages _on_message has been called with
    lastMsg,          \* the last of them
    lastPush,         \* per telemetry method: the data of its last push that was a dict
    prevPush,         \* per telemetry method: the data of such a push before the last
    badSeen,          \* a message _on_message could not parse or process was handled
    osd_callbacks,    \* MQTTClient.osd_callbacks: the registered callbacks, in order
    cbCalls,          \* the callback invocations of the last message handled
    held,             \* the value an accessor returned to the caller, as it is now
    heldDeep,         \* that value with its lists' contents, as it was returned
    \* ---- MQTTClient.wait_for_flyto_event ----
    waitPc,             \* the waiting thread: where it is in wait_for_flyto_event
    expected_fly_to_id, \* the argument expected_fly_to_id, None before the call
    timeout,            \* the argument timeout (0 before the call)
    start_time,         \* the local start_time
    wakeAt,             \* the time before which time.sleep does not return
    waitResult,         \* the progress record the call returned, None before
    skippedStale,       \* a poll has read a terminal record of another task
    termEvent,          \* a terminal event of the expected task: "none", then
                        \* "received" in time, then "polled" (a poll read the
                        \* cache after it and before the timeout)
    arrived,            \* when the last telemetry push arrived: of any method,
                        \* and of osd_info_push (0 before the first)
    \* ---- start_heartbeat.heartbeat_loop, stop_heartbeat, send_stick_control ----
    beatPc,             \* the heartbeat thread: where it is in heartbeat_loop
    interval,           \* the argument interval of start_heartbeat (0 before)
    next_tick,          \* the local next_tick
    now,                \* the local now
    seq,                \* the local seq
    hb_stop_flag,       \* the thread's stop_flag (threading.Event) is set
    beatWake,           \* the time before which the loop's time.sleep does not return
    published,          \* the messages published on drc/down, in publish order
    stopHbPc,           \* the thread calling stop_heartbeat: where it is
    stopHbCalls,        \* stop_heartbeat calls that have returned
    reportedAlive,      \* the last of them printed that the thread did not exit
    beatStart,          \* the first deadline of the loop
    beats,              \* how often the loop has moved its deadline
    fellBehind,         \* the loop has set a deadline from `now`
    lateBeats,          \* heartbeats published after stop_flag was set
    \* ---- MQTTClient.connect ----
    connPc,             \* the thread calling connect: where it is
    connack,            \* the return code of the broker's CONNACK, None before
    handler,            \* connect has set self.client.on_message = self._on_message
    subscribed,         \* what self.client.subscribe was called with, in order
    connElapsed,        \* time.time() - start_time in the wait loop, in seconds
    \* ---- import pydjimqtt ----
    importPc,           \* where the import of one name of the package is
    importName,         \* the name a from-import statement of __init__ names
    imported,           \* what the package has bound to it, None if nothing
    \* ---- take_photo_wait (services/drc_commands.py) ----
    photoPc,              \* each call of take_photo_wait: where it is
    photoSeq,             \* its seq
    original_on_message,  \* its original_on_message (line 213), as `installed`
    installed,            \* the call whose on_message closure is client.on_message,
                          \* None when it is MQTTClient._on_message
    done,                 \* each call's Event `done` is set
    result_box,           \* each call's result_box, with the seq of the message
                          \* that filled it
    lastInbound,          \* of the last inbound message: the calls waiting when
                          \* it came and whether it reached MQTTClient._on_message
    missed,               \* the calls that were waiting when a reply with their seq
                          \* came to a client.on_message that did not run their closure
    \* ---- fly_to_point and monitor_flyto_progress ----
    issued_fly_to_id,     \* the fly_to_id fly_to_point returned last, None before
    monitored             \* what monitor_flyto_progress returned last, with the
                          \* fly_to_id issued last when it was called

rpcVars == <<pending_requests, futures, setCount, callPc, callTid, outcomes,
             resolvedBy, replied, discarded, cleanedAgain>>
obsVars == <<on_state_change, notified, obsRunning, begun, told>>
monVars == <<state, stop_flag, heartbeat_thread, reconnect_attempts, monPc,
             attempt, stopPc, joinTarget, telemetry_fresh, hbAlive, hbStop,
             failures, lastResult, callLog, obsVars>>
monHist == <<failures, lastResult, callLog>>
cacheData == <<osd_data, drone_state, topo_data, camera_osd, flyto_progress,
               takeoff_height, last_osd_time, osd_timestamps, heap>>
cacheHist == <<handled, lastMsg, lastPush, prevPush, badSeen>>
cbVars == <<osd_callbacks, cbCalls>>
readerVars == <<held, heldDeep>>
waitVars == <<waitPc, expected_fly_to_id, timeout, start_time, wakeAt, waitResult,
              skippedStale>>
timeHist == <<termEvent, arrived>>
cacheVars == <<cacheData, clock, raised_out, cacheHist, cbVars, readerVars, waitVars,
               timeHist>>
beatVars == <<beatPc, interval, next_tick, now, seq, hb_stop_flag, beatWake,
              published, stopHbPc, stopHbCalls, reportedAlive, beatStart, beats,
              fellBehind, lateBeats>>
connVars == <<connPc, connack, handler, subscribed, connElapsed>>
importVars == <<importPc, importName, imported>>
photoVars == <<photoPc, photoSeq, original_on_message, installed, done, result_box,
               lastInbound, missed>>
taskVars == <<issued_fly_to_id, monitored>>
vars == <<rpcVars, monVars, cacheVars, beatVars, connVars, importVars, photoVars,
          taskVars>>

None == <<>>
Some(v) == <<v>>

-----------------------------------------------------------------------------
(* Bounds *)

MaxPhotos == 2   \* calls of take_photo_wait
Photos == 1..MaxPhotos
MaxCalls == 2              \* ServiceCaller.call invocations
MaxReconnectAttempts == 3  \* largest reconnect_attempts a manager is built with
MaxHeartbeats == 2         \* heartbeat threads that exist at one time

Calls == 1..MaxCalls

-----------------------------------------------------------------------------
(* Request/reply correlation *)

\* The transaction ids reply messages may carry: uuid4 strings. The i-th call
\* draws the i-th id: uuid4 does not repeat.
Tids == 1..MaxCalls

\* uuid.uuid4() in ServiceCaller.call: an id no earlier call has drawn.
uuid4 == CHOOSE t \in Tids : \A c \in Calls : callTid[c] # Some(t)

\* The envelope's "info" of a reply, as _on_message reads it: payload.get('info', {}).
InfoVals ==
    { [code |-> None,    message |-> None],                 \* no info, or {}
      [code |-> Some(0), message |-> Some("success")],
      [code |-> Some(1), message |-> Some("envelope_error")],
      [code |-> Some(1), message |-> None],
      [code |-> None,    message |-> Some("envelope_error")] }

\* The reply's "data": a dictionary with an optional 'result' and an optional
\* output.msg, or JSON null (a body _on_message cannot process).
DataDicts ==
    { [result |-> None,    msg |-> None],
      [result |-> Some(0), msg |-> None],
      [result |-> Some(1), msg |-> Some("body_error")],
      [result |-> Some(1), msg |-> None] }
Null == [null |-> TRUE]
DataVals == DataDicts \cup {Null}

\* The decoded payloads that are not telemetry pushes: a tid (or none) and a reply body.
Messages == [tid : {None} \cup {Some(t) : t \in Tids}, info : InfoVals, data : DataVals]

\* The reply bodies the concurrency specification delivers, one of each kind:
\* success, envelope error, body error, a body _on_message cannot process.
NoInfo == [code |-> None, message |-> None]
ReplyBodies ==
    { [info |-> NoInfo, data |-> [result |-> Some(0), msg |-> None]],
      [info |-> [code |-> Some(1), message |-> Some("envelope_error")],
       data |-> [result |-> None, msg |-> None]],
      [info |-> NoInfo, data |-> [result |-> Some(1), msg |-> Some("body_error")]],
      [info |-> NoInfo, data |-> Null] }

\* The replies with those bodies that carry tid (None: a message without tid).
RepliesFor(tid) == {[tid |-> tid, info |-> b.info, data |-> b.data] : b \in ReplyBodies}

Replies == UNION {RepliesFor(tid) : tid \in {None} \cup {Some(t) : t \in Tids}}

\* dict.__setitem__ on pending_requests (publish, line 409).
DictSet(d, k, v) == {e \in d : e[1] # k} \cup {<<k, v>>}

\* dict.pop(k, None) on pending_requests: the table afterwards.
DictPop(d, k) == {e \in d : e[1] # k}

\* dict.pop(k, None) / dict.get(k): the value found, None when there is none.
DictGet(d, k) == IF \E e \in d : e[1] = k
                 THEN Some((CHOOSE e \in d : e[1] = k)[2])
                 ELSE None

\* A Python dict is truthy when it is not empty.
Truthy(info) == info.code # None \/ info.message # None

\* dict.get(key, default)
GetOr(opt, default) == IF opt = None THEN default ELSE opt[1]

\* ResolveReply with the two checks in the other order (body first).
ResolveReplyBodyFirst(m) ==
    IF m.data # Null /\ m.data.result # None /\ m.data.result # Some(0)
    THEN [kind |-> "exception", value |-> GetOr(m.data.msg, "Unknown error")]
    ELSE IF Truthy(m.info) /\ m.info.code # Some(0)
    THEN [kind |-> "exception", value |-> GetOr(m.info.message, "Unknown error")]
    ELSE IF m.data = Null
    THEN [kind |-> "raise", value |-> "TypeError"]
    ELSE [kind |-> "result", value |-> m.data]

\* Lines 541-557 of _on_message: what the reply does to the future it resolves.
\* "raise" is the handler failing on the body (caught at line 559): the future
\* stays unresolved.
ResolveReply(m) ==
    IF Truthy(m.info) /\ m.info.code # Some(0)
    THEN [kind |-> "exception", value |-> GetOr(m.info.message, "Unknown error")]
    ELSE IF m.data = Null
    THEN [kind |-> "raise", value |-> "TypeError"]
    ELSE IF m.data.result # None /\ m.data.result # Some(0)
    THEN [kind |-> "exception", value |-> GetOr(m.data.msg, "Unknown error")]
    ELSE [kind |-> "result", value |-> m.data]

Unset == [kind |-> "pending", value |-> "none"]

InitRPC ==
    /\ pending_requests = {}
    /\ futures = [c \in Calls |-> Unset]
    /\ setCount = [c \in Calls |-> 0]
    /\ callPc = [c \in Calls |-> "idle"]
    /\ callTid = [c \in Calls |-> None]
    /\ outcomes = [c \in Calls |-> <<>>]
    /\ resolvedBy = [c \in Calls |-> None]
    /\ replied = [c \in Calls |-> FALSE]
    /\ discarded = [c \in Calls |-> FALSE]
    /\ cleanedAgain = [c \in Calls |-> FALSE]

\* PublishInsert registering nothing.
PublishInsertNothing(d, tid, fut) == d

\* MQTTClient.publish: the table after the request is registered.
PublishInsert(d, tid, fut) == DictSet(d, tid, fut)

\* ServiceCaller.call up to future.result(): draw a tid, register the future
\* (publish), send the request, start waiting.
Call(c) ==
    /\ UNCHANGED <<monVars, cacheVars, beatVars, connVars, importVars, photoVars, taskVars>>
    /\ callPc[c] = "idle"
    /\ \A b \in Calls : b < c => callPc[b] # "idle"
    /\ LET tid == uuid4 IN
        /\ callTid' = [callTid EXCEPT ![c] = Some(tid)]
        /\ pending_requests' = PublishInsert(pending_requests, tid, c)
    /\ callPc' = [callPc EXCEPT ![c] = "waiting"]
    /\ UNCHANGED <<futures, setCount, outcomes, resolvedBy, replied, discarded,
                   cleanedAgain>>

\* LookupRemove reading the entry with dict.get, leaving it in the table.
LookupKeep(d, tid) == d

\* Line 535 of _on_message: the table after the lookup of the reply's tid.
LookupRemove(d, tid) == DictPop(d, tid)

\* Future.set_result / Future.set_exception: a pending future takes the value;
\* a finished one raises InvalidStateError and keeps its value.
SetFuture(f, r) == IF f.kind = "pending" THEN r ELSE f

\* The call that drew transaction id t.
CallOf(t) == CHOOSE c \in Calls : callTid[c] = Some(t)

\* Lines 519-557 of _on_message: the payload is not a telemetry push. The
\* device echoes the tid of a request it was sent.
ReplyBranch(m) ==
    /\ m.tid # None => \E c \in Calls : callTid[c] = m.tid
    /\ IF m.tid = None
       THEN UNCHANGED <<pending_requests, futures, setCount, resolvedBy, replied,
                        discarded>>
       ELSE LET future == DictGet(pending_requests, m.tid[1])
                r == ResolveReply(m)
                c == CallOf(m.tid[1])
            IN  /\ pending_requests' = LookupRemove(pending_requests, m.tid[1])
                /\ replied' = [replied EXCEPT ![c] = TRUE]
                /\ discarded' = [discarded EXCEPT ![c] = @ \/ future = None]
                /\ IF future = None \/ r.kind = "raise"
                   THEN UNCHANGED <<futures, setCount, resolvedBy>>
                   ELSE /\ futures' = [futures EXCEPT ![future[1]] = SetFuture(@, r)]
                        /\ setCount' = [setCount EXCEPT ![future[1]] = @ + 1]
                        /\ resolvedBy' = [resolvedBy EXCEPT ![future[1]] =
                                            IF futures[future[1]].kind = "pending"
                                            THEN Some(m) ELSE @]
    /\ UNCHANGED <<callPc, callTid, outcomes, cleanedAgain>>

\* MQTTClient._on_message for a payload that is not a telemetry push.
OnMessage(m) ==
    /\ UNCHANGED <<monVars, cacheVars, beatVars, connVars, importVars, photoVars, taskVars>>
    /\ ReplyBranch(m)

\* future.result(timeout) ends because the future is finished: call() returns
\* the result or raises the exception the reply set.
WaitReturn(c) ==
    /\ UNCHANGED <<monVars, cacheVars, beatVars, connVars, importVars, photoVars, taskVars>>
    /\ callPc[c] = "waiting"
    /\ futures[c].kind # "pending"
    /\ outcomes' = [outcomes EXCEPT ![c] = Append(@, futures[c])]
    /\ callPc' = [callPc EXCEPT ![c] = IF futures[c].kind = "result"
                                       THEN "returned" ELSE "raised"]
    /\ UNCHANGED <<pending_requests, futures, setCount, callTid, resolvedBy,
                   replied, discarded, cleanedAgain>>

\* future.result(timeout) ends by its timeout with the future not finished:
\* TimeoutError is raised into the except clause of call() (line 38).
WaitTimeout(c) ==
    /\ UNCHANGED <<monVars, cacheVars, beatVars, connVars, importVars, photoVars, taskVars>>
    /\ callPc[c] = "waiting"
    /\ futures[c].kind = "pending"
    /\ callPc' = [callPc EXCEPT ![c] = "timedout"]
    /\ UNCHANGED <<pending_requests, futures, setCount, callTid, outcomes,
                   resolvedBy, replied, discarded, cleanedAgain>>

\* cleanup_request removing nothing.
cleanup_noop(d, tid) == d

\* MQTTClient.cleanup_request: the table afterwards.
cleanup_request(d, tid) == DictPop(d, tid)

\* TimeoutCleanup without the re-raise: call() returns None after the cleanup.
TimeoutCleanupNoRaise(c) ==
    /\ UNCHANGED <<monVars, cacheVars, beatVars, connVars, importVars, photoVars, taskVars>>
    /\ callPc[c] = "timedout"
    /\ pending_requests' = DictPop(pending_requests, callTid[c][1])
    /\ outcomes' = [outcomes EXCEPT ![c] =
                      Append(@, [kind |-> "result", value |-> "None"])]
    /\ callPc' = [callPc EXCEPT ![c] = "returned"]
    /\ UNCHANGED <<futures, setCount, callTid, resolvedBy, replied, discarded,
                   cleanedAgain>>

\* The except clause of call(): cleanup_request(tid), then raise TimeoutError.
TimeoutCleanup(c) ==
    /\ UNCHANGED <<monVars, cacheVars, beatVars, connVars, importVars, photoVars, taskVars>>
    /\ callPc[c] = "timedout"
    /\ pending_requests' = cleanup_request(pending_requests, callTid[c][1])
    /\ outcomes' = [outcomes EXCEPT ![c] =
                      Append(@, [kind |-> "exception", value |-> "TimeoutError"])]
    /\ callPc' = [callPc EXCEPT ![c] = "timeout_raised"]
    /\ UNCHANGED <<futures, setCount, callTid, resolvedBy, replied, discarded,
                   cleanedAgain>>

\* cleanup_request(tid) called again by the application after the call for tid
\* has timed out.
CleanupAgain(c) ==
    /\ UNCHANGED <<monVars, cacheVars, beatVars, connVars, importVars, photoVars, taskVars>>
    /\ callPc[c] = "timeout_raised"
    /\ cleanedAgain' = [cleanedAgain EXCEPT ![c] = TRUE]
    /\ pending_requests' = cleanup_request(pending_requests, callTid[c][1])
    /\ UNCHANGED <<futures, setCount, callPc, callTid, outcomes, resolvedBy,
                   replied, discarded>>

\* ServiceCaller.call line 31 and MQTTClient.publish lines 395-409: a tid is
\* drawn, the payload built, the future created and registered under the lock.
PublishRegister(c) ==
    /\ callPc[c] = "idle"
    /\ \A b \in Calls : b < c => callPc[b] # "idle"
    /\ UNCHANGED <<monVars, cacheVars, beatVars, connVars, importVars, photoVars, taskVars>>
    /\ LET tid == uuid4 IN
        /\ callTid' = [callTid EXCEPT ![c] = Some(tid)]
        /\ pending_requests' = PublishInsert(pending_requests, tid, c)
    /\ callPc' = [callPc EXCEPT ![c] = "publishing"]
    /\ UNCHANGED <<futures, setCount, outcomes, resolvedBy, replied, discarded,
                   cleanedAgain>>

\* MQTTClient.publish lines 412-416: json.dumps and self.client.publish hand the
\* request to the transport and the future is returned to call(), which
\* waits; or one of them raises (self.client is None before connect), and
\* the exception leaves publish and call(), which has no handler for it.
PublishSend(c, ok) ==
    /\ callPc[c] = "publishing"
    /\ UNCHANGED <<monVars, cacheVars, beatVars, connVars, importVars, photoVars, taskVars>>
    /\ callPc' = [callPc EXCEPT ![c] = IF ok THEN "waiting" ELSE "publish_raised"]
    /\ outcomes' = [outcomes EXCEPT ![c] =
                      IF ok THEN @
                      ELSE Append(@, [kind |-> "exception", value |-> "AttributeError"])]
    /\ UNCHANGED <<pending_requests, futures, setCount, callTid, resolvedBy,
                   replied, discarded, cleanedAgain>>

\* The device answers a request it was sent: no reply carries the tid of a
\* request that has not been handed to the transport.
ReplyToSent(m) ==
    /\ m.tid # None
    /\ \E c \in Calls : callTid[c] = m.tid /\ callPc[c] \notin {"publishing", "publish_raised"}
    /\ OnMessage(m)

Wait(c) == WaitReturn(c) \/ WaitTimeout(c)

\* One call answered by any reply the wire format allows.
CallOne == Call(1)

Receive == \E m \in Messages : OnMessage(m)

NextResolve ==
    \/ CallOne
    \/ Receive
    \/ \E c \in Calls : WaitReturn(c)
    \/ \E c \in Calls : WaitTimeout(c)
    \/ \E c \in Calls : TimeoutCleanup(c)

\* The calls step by step, the transport failing or not.
NextPublish ==
    \/ \E c \in Calls : PublishRegister(c)
    \/ \E c \in Calls, ok \in BOOLEAN : PublishSend(c, ok)
    \/ \E m \in Replies : ReplyToSent(m)
    \/ \E c \in Calls : WaitReturn(c)
    \/ \E c \in Calls : WaitTimeout(c)
    \/ \E c \in Calls : TimeoutCleanup(c)

NextRPC ==
    \/ \E c \in Calls : Call(c)
    \/ \E m \in Replies : OnMessage(m)
    \/ \E c \in Calls : WaitReturn(c)
    \/ \E c \in Calls : WaitTimeout(c)
    \/ \E c \in Calls : TimeoutCleanup(c)
    \/ \E c \in Calls : CleanupAgain(c)

-----------------------------------------------------------------------------
(* The telemetry cache and the whole of MQTTClient._on_message *)

MaxMessages == 2   \* messages _on_message is called with
MaxValue == 2      \* different values the pushes carry in a field

Values == 1..MaxValue

\* The keys of osd_data that each push writes, and the keys of the other groups.
OsdPushKeys == {"latitude", "longitude", "height", "attitude_head",
                "horizontal_speed", "speed_x", "speed_y", "speed_z"}
HsiPushKeys == {"down_distance", "down_enable", "down_work"}
BatteryKeys == {"battery_percent"}
OsdDataKeys == OsdPushKeys \cup HsiPushKeys \cup BatteryKeys
LimitKeys == {"distance_limit", "height_limit"}
DroneStateKeys == {"mode_code", "rth_altitude", "distance_limit", "height_limit",
                   "is_in_fixed_speed", "night_lights_state"}
CameraKeys == {"payload_index", "gimbal_pitch", "gimbal_roll", "gimbal_yaw"}
FlytoKeys == {"fly_to_id", "status", "result", "way_point_index",
              "remaining_distance", "remaining_time", "planned_path_points"}
TopoKeys == {"domain", "sub_devices"}

\* The methods _on_message routes to the cache.
KnownMethods == {"osd_info_push", "hsi_info_push", "drc_batteries_info_push",
                 "drc_drone_state_push", "update_topo",
                 "drc_camera_osd_info_push", "fly_to_point_progress"}

\* The fly-to statuses; the first three end a task.
terminal_statuses == {"wayline_ok", "wayline_failed", "wayline_cancel"}
Statuses == terminal_statuses \cup {"wayline_progress"}
FlyToIds == {"W", "X"}

\* A decoded "data" dictionary with every key of K present and equal to v, and
\* the same with one key missing (dict.get gives None for it).
Full(K, v) == [k \in K |-> Some(v)]
Without(K, v, missing) == [k \in K |-> IF k = missing THEN None ELSE Some(v)]

\* The "data" of a drc_drone_state_push: limit is missing (None), a dictionary,
\* or JSON null.
DroneData(v, limit) ==
    [mode_code |-> Some(v), rth_altitude |-> Some(v), limit |-> limit,
     is_in_fixed_speed |-> Some(v), night_lights_state |-> Some(v)]

\* The "data" of an update_topo: sub_devices is missing or a list (of serial numbers).
TopoData(v, sub_devices) == [domain |-> Some(v), sub_devices |-> sub_devices]

\* The "data" of a fly_to_point_progress: planned_path_points is missing or a list.
FlytoData(id, status, v, points) ==
    [fly_to_id |-> id, status |-> status, result |-> Some(v),
     way_point_index |-> Some(v), remaining_distance |-> Some(v),
     remaining_time |-> Some(v), planned_path_points |-> points]

\* A decoded payload with a method.
Push(method, tid, data) == [method |-> method, tid |-> tid, info |-> NoInfo, data |-> data]

\* A payload json.loads cannot decode.
Unparsable == [unparsable |-> TRUE]

\* The complete "data" of a push of each method, every field equal to v.
FullData(method, v) ==
    CASE method = "osd_info_push" -> Full(OsdPushKeys, v)
      [] method = "hsi_info_push" -> Full(HsiPushKeys, v)
      [] method = "drc_batteries_info_push" -> Full({"capacity_percent"}, v)
      [] method = "drc_drone_state_push" -> DroneData(v, Some(Full(LimitKeys, v)))
      [] method = "update_topo" -> TopoData(v, Some(<<v>>))
      [] method = "drc_camera_osd_info_push" -> Full(CameraKeys, v)
      [] method = "fly_to_point_progress" ->
            FlytoData(Some("X"), Some("wayline_progress"), v, Some(<<v>>))

\* "data" with keys missing; for the drone state also with limit missing or null.
PartialData(method) ==
    CASE method = "osd_info_push" -> {Without(OsdPushKeys, 1, "height")}
      [] method = "hsi_info_push" -> {Without(HsiPushKeys, 1, "down_work")}
      [] method = "drc_batteries_info_push" -> {[capacity_percent |-> None]}
      [] method = "drc_drone_state_push" ->
            {DroneData(1, None), DroneData(2, Some(Null))}
      [] method = "update_topo" ->
            {TopoData(1, None), [domain |-> None, sub_devices |-> None]}
      [] method = "drc_camera_osd_info_push" -> {Without(CameraKeys, 1, "gimbal_yaw")}
      [] method = "fly_to_point_progress" ->
            {FlytoData(Some("X"), Some("wayline_ok"), 1, None)}

\* The data the pushes of each method carry: complete, with keys missing, or
\* JSON null in place of the dictionary.
PushData(method) ==
    {FullData(method, v) : v \in Values} \cup PartialData(method) \cup {Null}

\* A message whose method is none of the known ones (a service reply).
Other(m) == [method |-> "other", tid |-> m.tid, info |-> m.info, data |-> m.data]

\* The messages the router is given: every push without a tid, a push of each
\* method that also carries the tid of a request, the replies, and a payload
\* that does not parse.
RouterMessages ==
    UNION {{Push(method, None, d) : d \in PushData(method)} : method \in KnownMethods}
    \cup {Push(method, Some(1), FullData(method, 1)) : method \in KnownMethods}
    \cup {Other(m) : m \in Replies}
    \cup {Unparsable}

InitCache ==
    /\ osd_data = [k \in OsdDataKeys |-> None]
    /\ drone_state = [k \in DroneStateKeys |-> None]
    /\ topo_data = None
    /\ camera_osd = [k \in CameraKeys |-> None]
    /\ flyto_progress = [k \in FlytoKeys |-> None]
    /\ takeoff_height = None
    /\ last_osd_time = 0
    /\ osd_timestamps = <<>>
    /\ heap = [n \in 1..MaxMessages |-> None]
    /\ clock = 1
    /\ raised_out = FALSE
    /\ handled = 0
    /\ lastMsg = None
    /\ lastPush = [method \in KnownMethods |-> None]
    /\ prevPush = [method \in KnownMethods |-> None]
    /\ badSeen = FALSE
    /\ osd_callbacks = <<>>
    /\ cbCalls = <<>>
    /\ held = None
    /\ waitPc = "idle"
    /\ expected_fly_to_id = None
    /\ timeout = 0
    /\ start_time = 0
    /\ wakeAt = 0
    /\ waitResult = None
    /\ skippedStale = FALSE
    /\ termEvent = "none"
    /\ arrived = [any |-> 0, osd |-> 0]
    /\ heldDeep = None

\* MQTTClient._freq_window, in seconds.
freq_window == 2

\* Lines 449-450 with the mutation that drops nothing.
EvictNothing(ts, t) == ts

\* Lines 449-450 of _on_message: timestamps older than the window are dropped.
RECURSIVE Evict(_, _)
Evict(ts, t) ==
    IF ts # <<>> /\ t - Head(ts) > freq_window THEN Evict(Tail(ts), t) ELSE ts

\* The list objects a dictionary refers to under key.
Refs(d, key) == IF d[key] = None THEN {} ELSE {d[key][1]}

\* The list objects the value a caller holds refers to.
HeldRefs ==
    IF held = None THEN {}
    ELSE IF held[1].accessor = "get_topo_data" /\ held[1].value # None
    THEN Refs(held[1].value[1], "sub_devices")
    ELSE IF held[1].accessor = "get_flyto_progress"
    THEN Refs(held[1].value, "planned_path_points")
    ELSE {}

\* The heap once the objects nothing refers to are freed: the cache (topo,
\* flyto) and the caller's value are the roots.
Collect(h, topo, flyto) ==
    LET roots == (IF topo = None THEN {} ELSE Refs(topo[1], "sub_devices"))
                 \cup Refs(flyto, "planned_path_points") \cup HeldRefs
    IN  [n \in DOMAIN h |-> IF n \in roots THEN h[n] ELSE None]

\* Lines 424-458: osd_info_push. A data that is not a dictionary fails at
\* line 432, before anything is written. (The osd_callbacks are called after
\* the lock is released; what they raise is swallowed.)
OsdPush(data) ==
    IF data = Null THEN UNCHANGED cacheData
    ELSE /\ osd_data' = [k \in OsdDataKeys |->
                            IF k \in OsdPushKeys THEN data[k] ELSE osd_data[k]]
         /\ takeoff_height' = IF data.height # None /\ takeoff_height = None
                               THEN data.height ELSE takeoff_height
         /\ last_osd_time' = clock
         /\ osd_timestamps' = Evict(Append(osd_timestamps, clock), clock)
         /\ UNCHANGED <<drone_state, topo_data, camera_osd, flyto_progress, heap>>

\* HsiPush storing a new dictionary that holds the push's keys only.
HsiPushReplacing(data) ==
    IF data = Null THEN UNCHANGED cacheData
    ELSE /\ osd_data' = [k \in OsdDataKeys |->
                            IF k \in HsiPushKeys THEN data[k] ELSE None]
         /\ UNCHANGED <<drone_state, topo_data, camera_osd, flyto_progress,
                        takeoff_height, last_osd_time, osd_timestamps, heap>>

\* Lines 461-467: hsi_info_push.
HsiPush(data) ==
    IF data = Null THEN UNCHANGED cacheData
    ELSE /\ osd_data' = [k \in OsdDataKeys |->
                            IF k \in HsiPushKeys THEN data[k] ELSE osd_data[k]]
         /\ UNCHANGED <<drone_state, topo_data, camera_osd, flyto_progress,
                        takeoff_height, last_osd_time, osd_timestamps, heap>>

\* Lines 470-474: drc_batteries_info_push.
BatteryPush(data) ==
    IF data = Null THEN UNCHANGED cacheData
    ELSE /\ osd_data' = [osd_data EXCEPT !["battery_percent"] = data.capacity_percent]
         /\ UNCHANGED <<drone_state, topo_data, camera_osd, flyto_progress,
                        takeoff_height, last_osd_time, osd_timestamps, heap>>

\* Lines 477-487: drc_drone_state_push. A data that is not a dictionary fails
\* at line 479. A limit that is not a dictionary fails at line 483, after
\* mode_code and rth_altitude have been written.
DronePush(data) ==
    IF data = Null THEN UNCHANGED cacheData
    ELSE /\ drone_state' =
                IF data.limit = Some(Null)
                THEN [drone_state EXCEPT !["mode_code"] = data.mode_code,
                                         !["rth_altitude"] = data.rth_altitude]
                ELSE LET limit == IF data.limit = None
                                  THEN [k \in LimitKeys |-> None]
                                  ELSE data.limit[1]
                     IN  [k \in DroneStateKeys |->
                            IF k \in LimitKeys THEN limit[k] ELSE data[k]]
         /\ UNCHANGED <<osd_data, topo_data, camera_osd, flyto_progress,
                        takeoff_height, last_osd_time, osd_timestamps, heap>>

\* Lines 490-494: update_topo. The cache refers to the decoded data (here: to
\* its sub_devices list, object n); a null data is stored as None.
TopoPush(data, n) ==
    LET topo == IF data = Null THEN None
                ELSE Some([domain |-> data.domain,
                           sub_devices |-> IF data.sub_devices = None THEN None
                                           ELSE Some(n)])
        h == IF data = Null THEN heap ELSE [heap EXCEPT ![n] = data.sub_devices]
    IN  /\ topo_data' = topo
        /\ heap' = Collect(h, topo, flyto_progress)
        /\ UNCHANGED <<osd_data, drone_state, camera_osd, flyto_progress,
                       takeoff_height, last_osd_time, osd_timestamps>>

\* Lines 497-504: drc_camera_osd_info_push.
CameraPush(data) ==
    IF data = Null THEN UNCHANGED cacheData
    ELSE /\ camera_osd' = [k \in CameraKeys |-> data[k]]
         /\ UNCHANGED <<osd_data, drone_state, topo_data, flyto_progress,
                        takeoff_height, last_osd_time, osd_timestamps, heap>>

\* Lines 507-517: fly_to_point_progress. planned_path_points refers to the
\* decoded list (object n).
FlytoPush(data, n) ==
    IF data = Null THEN UNCHANGED cacheData
    ELSE LET flyto == [k \in FlytoKeys |->
                         IF k = "planned_path_points" /\ data[k] # None
                         THEN Some(n) ELSE data[k]]
         IN  /\ flyto_progress' = flyto
             /\ heap' = Collect([heap EXCEPT ![n] = data.planned_path_points],
                                topo_data, flyto)
             /\ UNCHANGED <<osd_data, drone_state, topo_data, camera_osd,
                            takeoff_height, last_osd_time, osd_timestamps>>

\* Whether the push wrote to the cache.
PushWrites(method, data) == data # Null \/ method = "update_topo"

\* The exception the handler's code raises for the message, "none" if none.
HandlerError(raw) ==
    IF raw = Unparsable THEN "JSONDecodeError"
    ELSE IF raw.method \in KnownMethods
    THEN IF raw.data = Null
         THEN (IF raw.method = "update_topo" THEN "none" ELSE "AttributeError")
         ELSE IF raw.method = "drc_drone_state_push" /\ raw.data.limit = Some(Null)
         THEN "AttributeError"
         ELSE "none"
    ELSE IF /\ raw.tid # None
            /\ DictGet(pending_requests, raw.tid[1]) # None
            /\ ResolveReply(raw).kind = "raise"
    THEN "TypeError"
    ELSE "none"

\* Catches with an except clause for the decoding errors only.
CatchesDecodeErrors(error) == error = "JSONDecodeError"

\* Line 559: except Exception.
Catches(error) == TRUE

\* A push with a dictionary as data.
IsPush(raw) == raw # Unparsable /\ raw.method \in KnownMethods /\ raw.data # Null

\* A terminal event of the task the waiting thread expects, received while
\* the thread waits and less than `timeout` after it began.
ExpectedTerminalInTime(raw) ==
    /\ IsPush(raw)
    /\ raw.method = "fly_to_point_progress"
    /\ waitPc \in {"check", "sleeping"}
    /\ raw.data.fly_to_id = expected_fly_to_id
    /\ raw.data.status \in {Some(status) : status \in terminal_statuses}
    /\ clock - start_time < timeout

\* What each accessor builds from the dictionaries it is given (lines 176-184,
\* 201-204, 226-229, 240-243, 250-267); dict.copy() copies the keys and values,
\* so a list value is the same list object as in the cache. An empty topology
\* dictionary is falsy: get_topo_data returns None for it.
Read(accessor, osd, drone, topo, camera, flyto) ==
    CASE accessor = "get_position" -> <<osd["latitude"], osd["longitude"], osd["height"]>>
      [] accessor = "get_speed" ->
            <<osd["horizontal_speed"], osd["speed_x"], osd["speed_y"], osd["speed_z"]>>
      [] accessor = "get_gimbal_attitude" ->
            <<camera["gimbal_pitch"], camera["gimbal_roll"], camera["gimbal_yaw"]>>
      [] accessor = "get_drone_state" -> drone
      [] accessor = "get_camera_osd_data" -> camera
      [] accessor = "get_flyto_progress" -> flyto
      [] accessor = "get_topo_data" ->
            IF topo # None /\ \E k \in TopoKeys : topo[1][k] # None THEN topo ELSE None

\* What a registered callback does: it calls one accessor of the OSD group, or
\* it raises.
CallbackKinds == {"get_position", "get_speed", "raises"}

\* One callback() of lines 454-457 with the cache holding osd: an accessor
\* takes self.lock (a threading.Lock, line 22), so a callback reading the cache
\* while the calling thread holds the lock never returns; an exception is
\* swallowed by "except Exception: pass".
InvokeCallback(cb, osd, lock_held) ==
    IF cb = "raises" THEN [outcome |-> "swallowed", value |-> <<>>]
    ELSE IF lock_held THEN [outcome |-> "deadlock", value |-> <<>>]
    ELSE [outcome |-> "returned",
          value |-> Read(cb, osd, drone_state, topo_data, camera_osd, flyto_progress)]

\* The loop over the callbacks ending at the first callback that raises.
RunCallbacksUntilRaise(cbs, osd, lock_held) ==
    LET raising == {i \in 1..Len(cbs) : cbs[i] = "raises"}
        last == IF raising = {} THEN Len(cbs)
                ELSE CHOOSE i \in raising : \A j \in raising : i <= j
    IN  [i \in 1..last |-> InvokeCallback(cbs[i], osd, lock_held)]

\* Lines 452-457: every registered callback is called, in registration order;
\* the loop ends early only when a callback does not return.
RunCallbacks(cbs, osd, lock_held) ==
    LET stuck == {i \in 1..Len(cbs) :
                    InvokeCallback(cbs[i], osd, lock_held).outcome = "deadlock"}
        last == IF stuck = {} THEN Len(cbs)
                ELSE CHOOSE i \in stuck : \A j \in stuck : i <= j
    IN  [i \in 1..last |-> InvokeCallback(cbs[i], osd, lock_held)]

\* MQTTClient._on_message, whole: the payload is decoded; a known method is
\* routed to its cache group; anything else goes to the reply branch.
on_message(raw) ==
    /\ UNCHANGED <<monVars, beatVars, connVars, importVars, photoVars, taskVars>>
    /\ ~raised_out
    /\ handled < MaxMessages
    /\ handled' = handled + 1
    /\ lastMsg' = Some(raw)
    /\ UNCHANGED <<clock, held, heldDeep, waitVars>>
    /\ termEvent' = IF ExpectedTerminalInTime(raw) THEN "received" ELSE termEvent
    /\ arrived' = [any |-> IF IsPush(raw) THEN clock ELSE arrived.any,
                   osd |-> IF IsPush(raw) /\ raw.method = "osd_info_push"
                           THEN clock ELSE arrived.osd]
    /\ LET error == HandlerError(raw) IN
         /\ badSeen' = (badSeen \/ error # "none")
         /\ raised_out' = (error # "none" /\ ~Catches(error))
    /\ IF raw = Unparsable
       THEN UNCHANGED <<rpcVars, cacheData, lastPush, prevPush>>
       ELSE IF raw.method \in KnownMethods
       THEN /\ UNCHANGED rpcVars
            /\ lastPush' = IF PushWrites(raw.method, raw.data)
                            THEN [lastPush EXCEPT ![raw.method] = Some(raw.data)]
                            ELSE lastPush
            /\ prevPush' = IF PushWrites(raw.method, raw.data)
                            THEN [prevPush EXCEPT ![raw.method] = lastPush[raw.method]]
                            ELSE prevPush
            /\ CASE raw.method = "osd_info_push" -> OsdPush(raw.data)
                 [] raw.method = "hsi_info_push" -> HsiPush(raw.data)
                 [] raw.method = "drc_batteries_info_push" -> BatteryPush(raw.data)
                 [] raw.method = "drc_drone_state_push" -> DronePush(raw.data)
                 [] raw.method = "update_topo" -> TopoPush(raw.data, handled + 1)
                 [] raw.method = "drc_camera_osd_info_push" -> CameraPush(raw.data)
                 [] raw.method = "fly_to_point_progress" ->
                        FlytoPush(raw.data, handled + 1)
       ELSE /\ UNCHANGED <<cacheData, lastPush, prevPush>>
            /\ ReplyBranch([tid |-> raw.tid, info |-> raw.info, data |-> raw.data])
    /\ UNCHANGED osd_callbacks
    /\ cbCalls' = IF IsPush(raw) /\ raw.method = "osd_info_push"
                  THEN RunCallbacks(osd_callbacks, osd_data', FALSE)
                  ELSE <<>>

\* The accessors that return a telemetry group and the method whose pushes
\* write that group.
Accessors == {"get_position", "get_speed", "get_gimbal_attitude", "get_drone_state",
              "get_camera_osd_data", "get_flyto_progress", "get_topo_data"}
DictAccessors == {"get_drone_state", "get_camera_osd_data", "get_flyto_progress",
                  "get_topo_data"}
MethodOf(accessor) ==
    CASE accessor \in {"get_position", "get_speed"} -> "osd_info_push"
      [] accessor \in {"get_gimbal_attitude", "get_camera_osd_data"} ->
            "drc_camera_osd_info_push"
      [] accessor = "get_drone_state" -> "drc_drone_state_push"
      [] accessor = "get_flyto_progress" -> "fly_to_point_progress"
      [] accessor = "get_topo_data" -> "update_topo"

\* A value an accessor returned, its lists replaced by what they contain in heap h.
Deep(accessor, value, h) ==
    CASE accessor = "get_flyto_progress" ->
            [value EXCEPT !.planned_path_points = IF @ = None THEN None ELSE h[@[1]]]
      [] accessor = "get_topo_data" ->
            IF value = None THEN None
            ELSE Some([value[1] EXCEPT !.sub_devices = IF @ = None THEN None ELSE h[@[1]]])
      [] OTHER -> value

\* The list objects the cache refers to.
CacheRefs == (IF topo_data = None THEN {} ELSE Refs(topo_data[1], "sub_devices"))
             \cup Refs(flyto_progress, "planned_path_points")

\* One accessor call, under the lock: the caller now holds the returned value
\* (and no longer the one it held before).
Get(accessor) ==
    /\ UNCHANGED <<rpcVars, monVars, beatVars, connVars, importVars, photoVars, taskVars>>
    /\ LET value == Read(accessor, osd_data, drone_state, topo_data, camera_osd,
                         flyto_progress)
       IN  /\ held' = Some([accessor |-> accessor, value |-> value])
           /\ heldDeep' = Some([value |-> Deep(accessor, value, heap),
                                 pushed |-> lastPush[MethodOf(accessor)],
                                 earlier |-> prevPush[MethodOf(accessor)]])
    /\ heap' = [n \in DOMAIN heap |-> IF n \in CacheRefs THEN heap[n] ELSE None]
    /\ UNCHANGED <<osd_data, drone_state, topo_data, camera_osd, flyto_progress,
                   takeoff_height, last_osd_time, osd_timestamps, clock, raised_out,
                   cacheHist, cbVars, waitVars, timeHist>>

\* The key of each returned dictionary the caller assigns to.
AssignedKey(accessor) ==
    CASE accessor = "get_drone_state" -> "mode_code"
      [] accessor = "get_camera_osd_data" -> "gimbal_pitch"
      [] accessor = "get_flyto_progress" -> "status"
      [] accessor = "get_topo_data" -> "domain"

\* The caller assigns None to a key of the dictionary it was returned.
MutateTop ==
    /\ UNCHANGED <<rpcVars, monVars, beatVars, connVars, importVars, photoVars, taskVars>>
    /\ held # None
    /\ held[1].accessor \in DictAccessors
    /\ held[1].value # None
    /\ LET k == AssignedKey(held[1].accessor) IN
         held' = Some([held[1] EXCEPT !.value =
                         IF held[1].accessor = "get_topo_data"
                         THEN Some([@[1] EXCEPT ![k] = None])
                         ELSE [@ EXCEPT ![k] = None]])
    /\ UNCHANGED <<cacheData, clock, raised_out, cacheHist, cbVars, heldDeep, waitVars, timeHist>>

\* The caller empties a list inside the value it was returned (list.clear()
\* on sub_devices or planned_path_points).
MutateNested ==
    /\ UNCHANGED <<rpcVars, monVars, beatVars, connVars, importVars, photoVars, taskVars>>
    /\ \E n \in HeldRefs :
         /\ heap[n] # Some(<<>>)
         /\ heap' = [heap EXCEPT ![n] = Some(<<>>)]
    /\ UNCHANGED <<osd_data, drone_state, topo_data, camera_osd, flyto_progress,
                   takeoff_height, last_osd_time, osd_timestamps, clock, raised_out,
                   cacheHist, cbVars, readerVars, waitVars, timeHist>>

\* The pushes handled while a caller reads: complete pushes of the groups the
\* accessors return, and a drone state whose limit is null.
ReaderMessages ==
    {Push(MethodOf(accessor), None, FullData(MethodOf(accessor), v))
        : accessor \in Accessors, v \in {1, 2}}
    \cup {Push("drc_drone_state_push", None, DroneData(2, Some(Null)))}

ReaderDispatch == \E raw \in ReaderMessages : on_message(raw)

NextReader ==
    \/ ReaderDispatch
    \/ \E accessor \in Accessors : Get(accessor)
    \/ MutateTop
    \/ MutateNested

\* The dispatcher with one request in flight.
Dispatch == \E raw \in RouterMessages : on_message(raw)

MaxCallbacks == 2   \* callbacks registered with register_osd_callback

\* MQTTClient.register_osd_callback (lines 342-344).
register_osd_callback(cb) ==
    /\ Len(osd_callbacks) < MaxCallbacks
    /\ UNCHANGED <<rpcVars, monVars, beatVars, connVars, importVars, photoVars, taskVars>>
    /\ osd_callbacks' = Append(osd_callbacks, cb)
    /\ UNCHANGED <<cacheData, clock, raised_out, cacheHist, cbCalls, readerVars,
                   waitVars, timeHist>>

\* The pushes handled with callbacks registered: complete and partial OSD
\* pushes, an OSD push whose data is null, and a complete HSI push.
CallbackMessages ==
    {Push("osd_info_push", None, data) : data \in PushData("osd_info_push")}
    \cup {Push("hsi_info_push", None, FullData("hsi_info_push", 1))}

CallbackDispatch == \E raw \in CallbackMessages : on_message(raw)

NextCallbacks ==
    \/ \E cb \in CallbackKinds : register_osd_callback(cb)
    \/ CallbackDispatch

\* ---------------------------------------------------------------------------
\* Time, MQTTClient.wait_for_flyto_event and MQTTClient.is_online
\* ---------------------------------------------------------------------------

MaxClock == 4
MaxTimeout == 2
Timeouts == 1..MaxTimeout

\* The default of the argument poll_interval.
poll_interval == 1

\* A second passes.
Tick ==
    /\ UNCHANGED <<rpcVars, monVars, beatVars, connVars, importVars, photoVars, taskVars>>
    /\ clock < MaxClock
    /\ clock' = clock + 1
    /\ UNCHANGED <<cacheData, raised_out, cacheHist, cbVars, readerVars, waitVars, timeHist>>

\* Line 332, with the mutation that accepts a record of any task.
MatchesAnyTask(event_fly_to_id, expected) == TRUE

\* Line 332: event_fly_to_id == expected_fly_to_id.
Matches(event_fly_to_id, expected) == event_fly_to_id = expected

\* Lines 314-316: the call begins, with the longest of the timeouts.
WaitBegin(expected) ==
    /\ UNCHANGED <<rpcVars, monVars, beatVars, connVars, importVars, photoVars, taskVars>>
    /\ waitPc = "idle"
    /\ waitPc' = "check"
    /\ expected_fly_to_id' = Some(expected)
    /\ timeout' = MaxTimeout
    /\ start_time' = clock
    /\ UNCHANGED <<wakeAt, waitResult, skippedStale>>
    /\ UNCHANGED <<cacheData, clock, raised_out, cacheHist, cbVars, readerVars, timeHist>>

\* Lines 319-340: one pass of the loop, up to the return, the raise or the
\* call of time.sleep. The time is tested first, then a copy of the record is
\* read under the lock and compared.
WaitPoll ==
    /\ UNCHANGED <<rpcVars, monVars, beatVars, connVars, importVars, photoVars, taskVars>>
    /\ waitPc = "check"
    /\ LET elapsed == clock - start_time
           progress == Read("get_flyto_progress", osd_data, drone_state, topo_data,
                            camera_osd, flyto_progress)
           event_fly_to_id == progress["fly_to_id"]
           status == progress["status"]
           terminal == status \in {Some(t) : t \in terminal_statuses}
       IN  IF elapsed > timeout
           THEN /\ waitPc' = "raised"
                /\ UNCHANGED <<wakeAt, waitResult, skippedStale, termEvent>>
           ELSE /\ termEvent' = IF termEvent = "received" THEN "polled" ELSE termEvent
                /\ IF Matches(event_fly_to_id, expected_fly_to_id) /\ terminal
                   THEN /\ waitPc' = "returned"
                        /\ waitResult' = Some(progress)
                        /\ UNCHANGED <<wakeAt, skippedStale>>
                   ELSE /\ waitPc' = "sleeping"
                        /\ wakeAt' = clock + poll_interval
                        /\ skippedStale' = (skippedStale \/ terminal)
                        /\ UNCHANGED waitResult
    /\ UNCHANGED <<expected_fly_to_id, timeout, start_time, arrived>>
    /\ UNCHANGED <<cacheData, clock, raised_out, cacheHist, cbVars, readerVars>>

\* Line 340: time.sleep(poll_interval) returns, not before the interval has passed.
WaitWake ==
    /\ UNCHANGED <<rpcVars, monVars, beatVars, connVars, importVars, photoVars, taskVars>>
    /\ waitPc = "sleeping"
    /\ clock >= wakeAt
    /\ waitPc' = "check"
    /\ UNCHANGED <<expected_fly_to_id, timeout, start_time, wakeAt, waitResult,
                   skippedStale>>
    /\ UNCHANGED <<cacheData, clock, raised_out, cacheHist, cbVars, readerVars, timeHist>>

\* The progress events the client receives while a thread waits: each status
\* for each task, and an event without a task id.
FlytoMessages ==
    {Push("fly_to_point_progress", None, FlytoData(Some(id), Some(status), 1, None))
        : id \in FlyToIds, status \in Statuses}
    \cup {Push("fly_to_point_progress", None, FlytoData(None, Some("wayline_ok"), 1, None))}

FlytoDispatch == \E raw \in FlytoMessages : on_message(raw)

NextFlyto ==
    \/ FlytoDispatch
    \/ \E expected \in FlyToIds : WaitBegin(expected)
    \/ WaitPoll
    \/ WaitWake
    \/ Tick

\* monitor_flyto_progress returning nothing of a record that is not of the
\* task issued last.
monitor_flyto_progressOfTask(progress, task) ==
    IF progress.fly_to_id = task
    THEN [status |-> progress.status, progress |-> progress]
    ELSE [status |-> None, progress |-> [k \in FlytoKeys |-> None]]

\* primitives/waypoint.py lines 68-94: the status is read from the copy
\* get_flyto_progress returned, and every return statement returns
\* (status, progress); the lines between only print.
monitor_flyto_progress(progress, task) ==
    [status |-> progress.status, progress |-> progress]

\* fly_to_point (commands.py lines 275-300) has returned the fly_to_id of the
\* task it issued; its service call is a ServiceCaller.call as above, and
\* nothing in it writes to the telemetry cache.
FlyToPoint(id) ==
    /\ issued_fly_to_id # Some(id)
    /\ UNCHANGED <<rpcVars, monVars, cacheVars, beatVars, connVars, importVars,
                   photoVars>>
    /\ issued_fly_to_id' = Some(id)
    /\ UNCHANGED monitored

\* One call of monitor_flyto_progress(mqtt).
MonitorFlytoProgress ==
    /\ UNCHANGED <<rpcVars, monVars, cacheVars, beatVars, connVars, importVars,
                   photoVars>>
    /\ LET progress == Read("get_flyto_progress", osd_data, drone_state, topo_data,
                             camera_osd, flyto_progress)
           returned == monitor_flyto_progress(progress, issued_fly_to_id)
       IN  monitored' = Some([status |-> returned.status,
                               progress |-> returned.progress,
                               task |-> issued_fly_to_id])
    /\ UNCHANGED issued_fly_to_id

NextTask ==
    \/ FlytoDispatch
    \/ \E id \in FlyToIds : FlyToPoint(id)
    \/ MonitorFlytoProgress

\* Lines 365-381, with the mutation that counts the boundary as online.
is_onlineInclusive(tmo) ==
    IF last_osd_time = 0 THEN FALSE ELSE (clock - last_osd_time) <= tmo

\* Lines 365-381: MQTTClient.is_online(timeout).
is_online(tmo) ==
    IF last_osd_time = 0 THEN FALSE ELSE (clock - last_osd_time) < tmo

\* A frequency in Hz, as the quotient of two integers; 0.0 is ZeroHz.
ZeroHz == <<0, 1>>

\* Lines 356-363 with the mutation that divides the number of timestamps.
get_osd_frequencyCountingAll ==
    IF Len(osd_timestamps) < 2 THEN ZeroHz
    ELSE LET time_span == osd_timestamps[Len(osd_timestamps)] - osd_timestamps[1]
         IN  IF time_span = 0 THEN ZeroHz
             ELSE <<Len(osd_timestamps), time_span>>

\* Lines 356-363 computed over the timestamps still inside the window at the
\* time of the call.
get_osd_frequencyPruning ==
    LET recent == Evict(osd_timestamps, clock) IN
    IF Len(recent) < 2 THEN ZeroHz
    ELSE LET time_span == recent[Len(recent)] - recent[1]
         IN  IF time_span = 0 THEN ZeroHz
             ELSE <<Len(recent) - 1, time_span>>

\* Lines 356-363: MQTTClient.get_osd_frequency(), under the lock.
get_osd_frequency ==
    IF Len(osd_timestamps) < 2 THEN ZeroHz
    ELSE LET time_span == osd_timestamps[Len(osd_timestamps)] - osd_timestamps[1]
         IN  IF time_span = 0 THEN ZeroHz
             ELSE <<Len(osd_timestamps) - 1, time_span>>

\* The pushes the client receives while is_online is asked: one of each
\* method, and an OSD push whose data is null.
OnlineMessages ==
    {Push(method, None, FullData(method, 1)) : method \in KnownMethods}
    \cup {Push("osd_info_push", None, Null)}

OnlineDispatch == \E raw \in OnlineMessages : on_message(raw)

NextOnline ==
    \/ OnlineDispatch
    \/ Tick

NextRouter ==
    \/ CallOne
    \/ Dispatch

-----------------------------------------------------------------------------
(* DRCConnectionManager and the heartbeat threads *)

ONLINE == "online"
RECONNECTING == "reconnecting"
OFFLINE == "offline"

HbIds == 1..MaxHeartbeats

\* Where the monitor thread is while inside _reconnect_drc.
RcPcs == {"rc_auth", "rc_enter", "rc_hb_stop", "rc_hb_join", "rc_hb_start"}

InitMon ==
    /\ monPc = "not_started"
    /\ state = ONLINE
    /\ stop_flag = FALSE
    /\ heartbeat_thread = None
    /\ reconnect_attempts \in 0..MaxReconnectAttempts
    /\ attempt = 0
    /\ stopPc = "idle"
    /\ joinTarget = [p \in {"monitor", "stop"} |-> None]
    /\ telemetry_fresh \in BOOLEAN
    /\ hbAlive = {}
    /\ hbStop = {}
    /\ failures = 0
    /\ lastResult = "none"
    /\ callLog = <<>>
    /\ on_state_change = FALSE
    /\ notified = <<>>
    /\ obsRunning = {}
    /\ begun = <<>>
    /\ told = None

\* No heartbeat thread has been started.
InitBeat ==
    /\ beatPc = "none"
    /\ interval = 0
    /\ next_tick = 0
    /\ now = 0
    /\ seq = 0
    /\ hb_stop_flag = FALSE
    /\ beatWake = 0
    /\ published = <<>>
    /\ stopHbPc = "idle"
    /\ stopHbCalls = 0
    /\ reportedAlive = FALSE
    /\ beatStart = 0
    /\ beats = 0
    /\ fellBehind = FALSE
    /\ lateBeats = 0

\* connect has not been called: no client object, nothing subscribed.
InitConn ==
    /\ connPc = "idle"
    /\ connack = None
    /\ handler = FALSE
    /\ subscribed = <<>>
    /\ connElapsed = 0

\* Nothing has been imported.
InitImport ==
    /\ importPc = "none"
    /\ importName = None
    /\ imported = None

\* No take_photo_wait has been called.
InitPhoto ==
    /\ photoPc = [p \in Photos |-> "idle"]
    /\ photoSeq = [p \in Photos |-> 0]
    /\ original_on_message = [p \in Photos |-> None]
    /\ installed = None
    /\ done = [p \in Photos |-> FALSE]
    /\ result_box = [p \in Photos |-> None]
    /\ lastInbound = None
    /\ missed = {}

\* No fly-to task has been issued or monitored.
InitTask ==
    /\ issued_fly_to_id = None
    /\ monitored = None

Init ==
    /\ InitRPC /\ InitMon /\ InitCache /\ InitBeat /\ InitConn /\ InitImport
    /\ InitPhoto /\ InitTask

\* DRCConnectionManager._set_state: the state afterwards.
SetState(new_state) == IF state # new_state THEN new_state ELSE state

\* _set_state lines 132 and 141-145: whether the call starts a thread that runs
\* on_state_change(new_state).
StartsObserver(new_state) == state # new_state /\ on_state_change

\* StartObserver passing the state before the change (old_state) to the observer.
StartObserverOldState(new_state) ==
    IF StartsObserver(new_state)
    THEN /\ notified' = Append(notified, state)
         /\ obsRunning' = obsRunning \cup {state}
         /\ UNCHANGED <<begun, told>>
    ELSE UNCHANGED <<notified, obsRunning, begun, told>>

\* _set_state lines 141-145: the observer threads after the call.
StartObserver(new_state) ==
    IF StartsObserver(new_state)
    THEN /\ notified' = Append(notified, new_state)
         /\ obsRunning' = obsRunning \cup {new_state}
         /\ UNCHANGED <<begun, told>>
    ELSE UNCHANGED <<notified, obsRunning, begun, told>>

\* AfterSetState with on_state_change(new_state) called by _set_state itself:
\* the calling thread goes on when the observer has returned.
AfterSetStateInline(new_state, next_pc) ==
    IF StartsObserver(new_state) THEN "in_observer" ELSE next_pc

\* _set_state lines 143-145: Thread(...).start() returns at once; the calling
\* thread goes on at next_pc whatever the observer does.
AfterSetState(new_state, next_pc) == next_pc

\* A thread object for a new heartbeat thread: one that no running loop and no
\* reference in use names.
FreeHb == {h \in HbIds : /\ h \notin hbAlive
                         /\ heartbeat_thread # Some(h)
                         /\ \A p \in DOMAIN joinTarget : joinTarget[p] # Some(h)}

\* The thread object start_heartbeat creates: which of the free ones it is
\* makes no difference, the first is taken.
NewHb == CHOOSE h \in FreeHb : \A other \in FreeHb : h <= other

\* start_heartbeat: a new thread runs heartbeat_loop, its stop_flag clear.
StartHeartbeat(h) ==
    /\ hbAlive' = hbAlive \cup {h}
    /\ hbStop' = hbStop \ {h}

\* DRCConnectionManager.start, with the heartbeat thread the application
\* started before (or None).
Start(withHeartbeat) ==
    /\ monPc = "not_started"
    /\ UNCHANGED <<rpcVars, cacheVars, beatVars, connVars, importVars, photoVars, taskVars>>
    /\ UNCHANGED obsVars
    /\ UNCHANGED monHist
    /\ IF withHeartbeat
       THEN FreeHb # {} /\ StartHeartbeat(NewHb) /\ heartbeat_thread' = Some(NewHb)
       ELSE heartbeat_thread' = None /\ UNCHANGED <<hbAlive, hbStop>>
    /\ monPc' = "while"
    /\ UNCHANGED <<state, stop_flag, reconnect_attempts, attempt, stopPc, joinTarget,
                   telemetry_fresh>>

\* The OSD pushes stop: is_online(offline_timeout) turns false.
TelemetryStale ==
    /\ UNCHANGED <<rpcVars, cacheVars, beatVars, connVars, importVars, photoVars, taskVars>>
    /\ UNCHANGED obsVars
    /\ UNCHANGED monHist
    /\ telemetry_fresh
    /\ telemetry_fresh' = FALSE
    /\ UNCHANGED <<state, stop_flag, heartbeat_thread, reconnect_attempts, monPc,
                   attempt, stopPc, joinTarget, hbAlive, hbStop>>

\* An OSD push arrives: is_online(offline_timeout) turns true.
TelemetryResumes ==
    /\ UNCHANGED <<rpcVars, cacheVars, beatVars, connVars, importVars, photoVars, taskVars>>
    /\ UNCHANGED obsVars
    /\ UNCHANGED monHist
    /\ ~telemetry_fresh
    /\ telemetry_fresh' = TRUE
    /\ UNCHANGED <<state, stop_flag, heartbeat_thread, reconnect_attempts, monPc,
                   attempt, stopPc, joinTarget, hbAlive, hbStop>>

\* _monitor_loop line 210: the while condition; line 211: the sleep begins.
MonWhile ==
    /\ monPc = "while"
    /\ UNCHANGED <<rpcVars, cacheVars, beatVars, connVars, importVars, photoVars, taskVars>>
    /\ UNCHANGED obsVars
    /\ UNCHANGED monHist
    /\ monPc' = IF stop_flag THEN "exited" ELSE "sleep"
    /\ UNCHANGED <<state, stop_flag, heartbeat_thread, reconnect_attempts, attempt,
                   stopPc, joinTarget, telemetry_fresh, hbAlive, hbStop>>

\* MonPoll beginning a reconnection cycle from every state but RECONNECTING,
\* OFFLINE included.
MonPollRetryOffline ==
    /\ monPc = "sleep"
    /\ UNCHANGED <<rpcVars, cacheVars, beatVars, connVars, importVars, photoVars, taskVars>>
    /\ IF telemetry_fresh /\ state = RECONNECTING
       THEN StartObserver(ONLINE)
       ELSE /\ notified' = (IF ~telemetry_fresh /\ state # RECONNECTING THEN <<>> ELSE notified)
            /\ begun' = (IF ~telemetry_fresh /\ state # RECONNECTING THEN <<>> ELSE begun)
            /\ UNCHANGED <<obsRunning, told>>
    /\ UNCHANGED on_state_change
    /\ UNCHANGED monHist
    /\ monPc' = IF ~telemetry_fresh /\ state # RECONNECTING THEN "set_reconnecting"
                ELSE "while"
    /\ state' = IF telemetry_fresh /\ state = RECONNECTING THEN SetState(ONLINE)
                ELSE state
    /\ UNCHANGED <<stop_flag, heartbeat_thread, reconnect_attempts, attempt,
                   stopPc, joinTarget, telemetry_fresh, hbAlive, hbStop>>

\* _monitor_loop lines 211-218 and 249-254: the sleep ends, is_online and
\* get_state are read and the branch is taken. With telemetry silent and the
\* state ONLINE a reconnection cycle begins; with telemetry fresh and the state
\* RECONNECTING, _set_state(ONLINE) runs (line 254).
MonPoll ==
    /\ monPc = "sleep"
    /\ UNCHANGED <<rpcVars, cacheVars, beatVars, connVars, importVars, photoVars, taskVars>>
    /\ IF telemetry_fresh /\ state = RECONNECTING
       THEN StartObserver(ONLINE)
       ELSE /\ notified' = (IF ~telemetry_fresh /\ state = ONLINE THEN <<>> ELSE notified)
            /\ begun' = (IF ~telemetry_fresh /\ state = ONLINE THEN <<>> ELSE begun)
            /\ UNCHANGED <<obsRunning, told>>
    /\ UNCHANGED on_state_change
    /\ UNCHANGED monHist
    /\ monPc' = IF ~telemetry_fresh /\ state = ONLINE THEN "set_reconnecting"
                ELSE IF telemetry_fresh /\ state = RECONNECTING
                THEN AfterSetState(ONLINE, "while")
                ELSE "while"
    /\ state' = IF telemetry_fresh /\ state = RECONNECTING THEN SetState(ONLINE)
                ELSE state
    /\ UNCHANGED <<stop_flag, heartbeat_thread, reconnect_attempts, attempt,
                   stopPc, joinTarget, telemetry_fresh, hbAlive, hbStop>>

\* MonSetReconnecting without the _set_state(RECONNECTING) call.
MonSetReconnectingSkip ==
    /\ monPc = "set_reconnecting"
    /\ UNCHANGED <<rpcVars, cacheVars, beatVars, connVars, importVars, photoVars, taskVars>>
    /\ UNCHANGED obsVars
    /\ failures' = 0
    /\ lastResult' = "none"
    /\ callLog' = <<>>
    /\ attempt' = 0
    /\ monPc' = "for"
    /\ UNCHANGED <<state, stop_flag, heartbeat_thread, reconnect_attempts, stopPc,
                   joinTarget, telemetry_fresh, hbAlive, hbStop>>

\* MonSetReconnecting with the attempts counted on from the cycle before.
MonSetReconnectingKeepCount ==
    /\ monPc = "set_reconnecting"
    /\ UNCHANGED <<rpcVars, cacheVars, beatVars, connVars, importVars, photoVars, taskVars>>
    /\ StartObserver(RECONNECTING)
    /\ UNCHANGED on_state_change
    /\ UNCHANGED failures
    /\ lastResult' = "none"
    /\ callLog' = <<>>
    /\ state' = SetState(RECONNECTING)
    /\ UNCHANGED attempt
    /\ monPc' = AfterSetState(RECONNECTING, "for")
    /\ UNCHANGED <<stop_flag, heartbeat_thread, reconnect_attempts, stopPc,
                   joinTarget, telemetry_fresh, hbAlive, hbStop>>

\* _monitor_loop line 223: _set_state(RECONNECTING); the for loop is entered.
MonSetReconnecting ==
    /\ monPc = "set_reconnecting"
    /\ UNCHANGED <<rpcVars, cacheVars, beatVars, connVars, importVars, photoVars, taskVars>>
    /\ StartObserver(RECONNECTING)
    /\ UNCHANGED on_state_change
    /\ failures' = 0
    /\ lastResult' = "none"
    /\ callLog' = <<>>
    /\ state' = SetState(RECONNECTING)
    /\ attempt' = 0
    /\ monPc' = AfterSetState(RECONNECTING, "for")
    /\ UNCHANGED <<stop_flag, heartbeat_thread, reconnect_attempts, stopPc,
                   joinTarget, telemetry_fresh, hbAlive, hbStop>>

\* MonFor without the stop_flag check of lines 227-228.
MonForNoStopCheck ==
    /\ monPc = "for"
    /\ UNCHANGED <<rpcVars, cacheVars, beatVars, connVars, importVars, photoVars, taskVars>>
    /\ UNCHANGED obsVars
    /\ UNCHANGED <<failures, lastResult>>
    /\ callLog' = <<>>
    /\ IF attempt + 1 > reconnect_attempts
       THEN monPc' = "set_offline" /\ UNCHANGED attempt
       ELSE attempt' = attempt + 1 /\ monPc' = "rc_auth"
    /\ UNCHANGED <<state, stop_flag, heartbeat_thread, reconnect_attempts, stopPc,
                   joinTarget, telemetry_fresh, hbAlive, hbStop>>

\* _monitor_loop lines 226-234: the for loop's head. The range is used up (the
\* else clause runs), or stop_flag is set (break), or the next attempt begins.
MonFor ==
    /\ monPc = "for"
    /\ UNCHANGED <<rpcVars, cacheVars, beatVars, connVars, importVars, photoVars, taskVars>>
    /\ UNCHANGED obsVars
    /\ UNCHANGED <<failures, lastResult>>
    /\ callLog' = <<>>
    /\ IF attempt + 1 > reconnect_attempts
       THEN monPc' = "set_offline" /\ UNCHANGED attempt
       ELSE /\ attempt' = attempt + 1
            /\ monPc' = IF stop_flag THEN "while" ELSE "rc_auth"
    /\ UNCHANGED <<state, stop_flag, heartbeat_thread, reconnect_attempts, stopPc,
                   joinTarget, telemetry_fresh, hbAlive, hbStop>>

\* Where the monitor goes when _reconnect_drc returns False (lines 240-241).
AfterFailure == IF attempt < reconnect_attempts THEN "retry_sleep" ELSE "for"

\* How a service call ends for its caller, by the reply that arrives:
\* ServiceCaller.call returns the reply's data, raises the Exception set in
\* the future, or raises TimeoutError (also when _on_message failed on the
\* reply and the future stayed unresolved).
ResultOf(m) ==
    LET r == ResolveReply(m) IN
    IF r.kind = "raise" THEN "TimeoutError"
    ELSE IF r.kind = "exception" THEN "Exception"
    ELSE IF r.value.result = Some(0) THEN "result_0"
    ELSE "no_result"

\* The replies a service call of the manager can get: those of the
\* concurrency specification and a reply whose data has no result field.
ServiceReplies ==
    RepliesFor(None)
    \cup {[tid |-> None, info |-> NoInfo, data |-> [result |-> None, msg |-> None]]}

\* How a service call can end: by one of these replies, or by none.
ServiceResults == {ResultOf(m) : m \in ServiceReplies} \cup {"TimeoutError"}

\* commands._call_service with the mutation result.get('result', 0) == 0.
call_serviceLenient(result) == result \in {"result_0", "no_result"}

\* commands._call_service lines 37-62: the data is returned when the call
\* returned and result.get('result') == 0; anything else raises.
call_service(result) == result = "result_0"

\* _reconnect_drc lines 159-163: request_control_auth returns or raises.
RcAuth(result) ==
    /\ monPc = "rc_auth"
    /\ UNCHANGED <<rpcVars, cacheVars, beatVars, connVars, importVars, photoVars, taskVars>>
    /\ UNCHANGED obsVars
    /\ failures' = IF call_service(result) THEN failures ELSE failures + 1
    /\ lastResult' = IF call_service(result) THEN lastResult ELSE "failure"
    /\ callLog' = Append(callLog, result)
    /\ monPc' = IF call_service(result) THEN "rc_enter" ELSE AfterFailure
    /\ UNCHANGED <<state, stop_flag, heartbeat_thread, reconnect_attempts, attempt,
                   stopPc, joinTarget, telemetry_fresh, hbAlive, hbStop>>

\* _reconnect_drc lines 178-183: enter_drc_mode returns or raises.
RcEnter(result) ==
    /\ monPc = "rc_enter"
    /\ UNCHANGED <<rpcVars, cacheVars, beatVars, connVars, importVars, photoVars, taskVars>>
    /\ UNCHANGED obsVars
    /\ failures' = IF call_service(result) THEN failures ELSE failures + 1
    /\ lastResult' = IF call_service(result) THEN lastResult ELSE "failure"
    /\ callLog' = Append(callLog, result)
    /\ monPc' = IF call_service(result) THEN "rc_hb_stop" ELSE AfterFailure
    /\ UNCHANGED <<state, stop_flag, heartbeat_thread, reconnect_attempts, attempt,
                   stopPc, joinTarget, telemetry_fresh, hbAlive, hbStop>>

\* RcStopHeartbeat without the call of stop_heartbeat.
RcStopHeartbeatSkipped ==
    /\ monPc = "rc_hb_stop"
    /\ UNCHANGED <<rpcVars, cacheVars, beatVars, connVars, importVars, photoVars, taskVars>>
    /\ UNCHANGED obsVars
    /\ UNCHANGED monHist
    /\ monPc' = "rc_hb_start"
    /\ UNCHANGED <<state, stop_flag, heartbeat_thread, reconnect_attempts, attempt,
                   stopPc, joinTarget, telemetry_fresh, hbAlive, hbStop>>

\* _reconnect_drc lines 186-187 and stop_heartbeat line 82: the old heartbeat's
\* stop_flag is set, if there is an old heartbeat.
RcStopHeartbeat ==
    /\ monPc = "rc_hb_stop"
    /\ UNCHANGED <<rpcVars, cacheVars, beatVars, connVars, importVars, photoVars, taskVars>>
    /\ UNCHANGED obsVars
    /\ UNCHANGED monHist
    /\ IF heartbeat_thread # None
       THEN /\ hbStop' = hbStop \cup {heartbeat_thread[1]}
            /\ joinTarget' = [joinTarget EXCEPT !["monitor"] = heartbeat_thread]
            /\ monPc' = "rc_hb_join"
       ELSE /\ UNCHANGED <<hbStop, joinTarget>>
            /\ monPc' = "rc_hb_start"
    /\ UNCHANGED <<state, stop_flag, heartbeat_thread, reconnect_attempts, attempt,
                   stopPc, telemetry_fresh, hbAlive>>

\* stop_heartbeat lines 83-89: thread.join(timeout=5) returns, the thread
\* having exited or not (then this is only printed).
JoinReturns(p) ==
    /\ joinTarget[p] # None
    /\ joinTarget' = [joinTarget EXCEPT ![p] = None]

RcJoinHeartbeat ==
    /\ monPc = "rc_hb_join"
    /\ UNCHANGED <<rpcVars, cacheVars, beatVars, connVars, importVars, photoVars, taskVars>>
    /\ UNCHANGED obsVars
    /\ UNCHANGED monHist
    /\ JoinReturns("monitor")
    /\ monPc' = "rc_hb_start"
    /\ UNCHANGED <<state, stop_flag, heartbeat_thread, reconnect_attempts, attempt,
                   stopPc, telemetry_fresh, hbAlive, hbStop>>

\* _reconnect_drc lines 189-192: start_heartbeat, the manager refers to the new
\* thread, True is returned.
RcStartHeartbeat ==
    /\ monPc = "rc_hb_start"
    /\ UNCHANGED <<rpcVars, cacheVars, beatVars, connVars, importVars, photoVars, taskVars>>
    /\ UNCHANGED obsVars
    /\ lastResult' = "success"
    /\ UNCHANGED <<failures, callLog>>
    /\ FreeHb # {} /\ StartHeartbeat(NewHb) /\ heartbeat_thread' = Some(NewHb)
    /\ monPc' = "set_online"
    /\ UNCHANGED <<state, stop_flag, reconnect_attempts, attempt, stopPc, joinTarget,
                   telemetry_fresh>>

\* MonSetOnline without the break of line 237: the for loop goes on.
MonSetOnlineNoBreak ==
    /\ monPc = "set_online"
    /\ UNCHANGED <<rpcVars, cacheVars, beatVars, connVars, importVars, photoVars, taskVars>>
    /\ StartObserver(ONLINE)
    /\ UNCHANGED on_state_change
    /\ UNCHANGED monHist
    /\ state' = SetState(ONLINE)
    /\ monPc' = "for"
    /\ UNCHANGED <<stop_flag, heartbeat_thread, reconnect_attempts, attempt, stopPc,
                   joinTarget, telemetry_fresh, hbAlive, hbStop>>

\* _monitor_loop lines 236-237: _set_state(ONLINE); break.
MonSetOnline ==
    /\ monPc = "set_online"
    /\ UNCHANGED <<rpcVars, cacheVars, beatVars, connVars, importVars, photoVars, taskVars>>
    /\ StartObserver(ONLINE)
    /\ UNCHANGED on_state_change
    /\ UNCHANGED monHist
    /\ state' = SetState(ONLINE)
    /\ monPc' = AfterSetState(ONLINE, "while")
    /\ UNCHANGED <<stop_flag, heartbeat_thread, reconnect_attempts, attempt, stopPc,
                   joinTarget, telemetry_fresh, hbAlive, hbStop>>

\* _monitor_loop line 241: time.sleep(reconnect_interval) ends.
MonRetrySleep ==
    /\ monPc = "retry_sleep"
    /\ UNCHANGED <<rpcVars, cacheVars, beatVars, connVars, importVars, photoVars, taskVars>>
    /\ UNCHANGED obsVars
    /\ UNCHANGED monHist
    /\ monPc' = "for"
    /\ UNCHANGED <<state, stop_flag, heartbeat_thread, reconnect_attempts, attempt,
                   stopPc, joinTarget, telemetry_fresh, hbAlive, hbStop>>

\* _monitor_loop lines 242-247: the for loop's else clause, _set_state(OFFLINE).
MonSetOffline ==
    /\ monPc = "set_offline"
    /\ UNCHANGED <<rpcVars, cacheVars, beatVars, connVars, importVars, photoVars, taskVars>>
    /\ StartObserver(OFFLINE)
    /\ UNCHANGED on_state_change
    /\ UNCHANGED monHist
    /\ state' = SetState(OFFLINE)
    /\ monPc' = AfterSetState(OFFLINE, "while")
    /\ UNCHANGED <<stop_flag, heartbeat_thread, reconnect_attempts, attempt, stopPc,
                   joinTarget, telemetry_fresh, hbAlive, hbStop>>

\* heartbeat_loop line 40: a loop whose stop_flag is set leaves the loop.
HeartbeatExit(h) ==
    /\ h \in hbAlive
    /\ h \in hbStop
    /\ UNCHANGED <<rpcVars, cacheVars, beatVars, connVars, importVars, photoVars, taskVars>>
    /\ UNCHANGED obsVars
    /\ UNCHANGED monHist
    /\ hbAlive' = hbAlive \ {h}
    /\ UNCHANGED <<state, stop_flag, heartbeat_thread, reconnect_attempts, monPc,
                   attempt, stopPc, joinTarget, telemetry_fresh, hbStop>>

\* DRCConnectionManager.stop line 274: stop_flag.set().
StopSignal ==
    /\ stopPc = "idle"
    /\ UNCHANGED <<rpcVars, cacheVars, beatVars, connVars, importVars, photoVars, taskVars>>
    /\ UNCHANGED obsVars
    /\ UNCHANGED monHist
    /\ monPc # "not_started"
    /\ stop_flag' = TRUE
    /\ stopPc' = "join_monitor"
    /\ UNCHANGED <<state, heartbeat_thread, reconnect_attempts, monPc, attempt,
                   joinTarget, telemetry_fresh, hbAlive, hbStop>>

\* Where the monitor thread may stay longer than the 2 s stop() waits for it:
\* a service call of _reconnect_drc waits up to 10 s for its reply,
\* stop_heartbeat joins for up to 5 s, reconnect_interval is the application's
\* choice.
BlockingPcs == {"rc_auth", "rc_enter", "rc_hb_join", "retry_sleep"}

\* Whether monitor_thread.join(timeout=2) can return now: the monitor has
\* exited, or the 2 s have passed with the monitor in one of those operations.
MonitorJoinEnds == monPc = "exited" \/ monPc \in BlockingPcs

\* stop lines 276-280: the join of the monitor thread ends; then, if the
\* manager has a heartbeat thread, its stop_flag is set (stop_heartbeat line 82).
StopJoinMonitor ==
    /\ stopPc = "join_monitor"
    /\ UNCHANGED <<rpcVars, cacheVars, beatVars, connVars, importVars, photoVars, taskVars>>
    /\ UNCHANGED obsVars
    /\ UNCHANGED monHist
    /\ MonitorJoinEnds
    /\ IF heartbeat_thread # None
       THEN /\ hbStop' = hbStop \cup {heartbeat_thread[1]}
            /\ joinTarget' = [joinTarget EXCEPT !["stop"] = heartbeat_thread]
            /\ stopPc' = "join_heartbeat"
       ELSE /\ UNCHANGED <<hbStop, joinTarget>>
            /\ stopPc' = "returned"
    /\ UNCHANGED <<state, stop_flag, heartbeat_thread, reconnect_attempts, monPc,
                   attempt, telemetry_fresh, hbAlive>>

\* stop line 280, stop_heartbeat lines 83-89: the join of the heartbeat thread
\* ends and stop() returns.
StopJoinHeartbeat ==
    /\ stopPc = "join_heartbeat"
    /\ UNCHANGED <<rpcVars, cacheVars, beatVars, connVars, importVars, photoVars, taskVars>>
    /\ UNCHANGED obsVars
    /\ UNCHANGED monHist
    /\ JoinReturns("stop")
    /\ stopPc' = "returned"
    /\ UNCHANGED <<state, stop_flag, heartbeat_thread, reconnect_attempts, monPc,
                   attempt, telemetry_fresh, hbAlive, hbStop>>

NextMon ==
    \/ \E withHeartbeat \in BOOLEAN : Start(withHeartbeat)
    \/ TelemetryStale
    \/ TelemetryResumes
    \/ MonWhile
    \/ MonPoll
    \/ MonSetReconnecting
    \/ MonFor
    \/ \E result \in ServiceResults : RcAuth(result)
    \/ \E result \in ServiceResults : RcEnter(result)
    \/ RcStopHeartbeat
    \/ RcJoinHeartbeat
    \/ RcStartHeartbeat
    \/ MonSetOnline
    \/ MonRetrySleep
    \/ MonSetOffline
    \/ \E h \in HbIds : HeartbeatExit(h)
    \/ StopSignal
    \/ StopJoinMonitor
    \/ StopJoinHeartbeat

SpecMon == Init /\ [][NextMon]_vars

\* The application sets manager.on_state_change to a callable.
RegisterObserver ==
    /\ UNCHANGED <<rpcVars, cacheVars, beatVars, connVars, importVars, photoVars, taskVars>>
    /\ ~on_state_change
    /\ on_state_change' = TRUE
    /\ UNCHANGED <<state, stop_flag, heartbeat_thread, reconnect_attempts, monPc,
                   attempt, stopPc, joinTarget, telemetry_fresh, hbAlive, hbStop,
                   failures, lastResult, callLog, notified, obsRunning, begun, told>>

\* The observer threads of this cycle whose call of on_state_change has not
\* begun.
NotBegun == {i \in 1..Len(notified) : \A k \in 1..Len(begun) : begun[k] # i}

\* The threads running on_state_change(new_state) end: the observer returns, or
\* raises (the thread dies with a traceback); the whole call is this one step.
\* An observer that never returns never takes this step.
ObserverEnds(new_state) ==
    /\ UNCHANGED <<rpcVars, cacheVars, beatVars, connVars, importVars, photoVars, taskVars>>
    /\ new_state \in obsRunning
    /\ obsRunning' = obsRunning \ {new_state}
    /\ UNCHANGED <<state, stop_flag, heartbeat_thread, reconnect_attempts, monPc,
                   attempt, stopPc, joinTarget, telemetry_fresh, hbAlive, hbStop,
                   failures, lastResult, callLog, on_state_change, notified, begun,
                   told>>

\* A thread started at lines 143-145 is scheduled and calls
\* on_state_change(new_state): each thread runs on its own, and nothing orders
\* the first step of one thread against that of a thread started later.
ObserverBegins(i) ==
    /\ i \in NotBegun
    /\ UNCHANGED <<rpcVars, cacheVars, beatVars, connVars, importVars, photoVars, taskVars>>
    /\ begun' = Append(begun, i)
    /\ told' = Some(notified[i])
    /\ UNCHANGED <<state, stop_flag, heartbeat_thread, reconnect_attempts, monPc,
                   attempt, stopPc, joinTarget, telemetry_fresh, hbAlive, hbStop,
                   failures, lastResult, callLog, on_state_change, notified,
                   obsRunning>>

\* The manager with an observer.
NextObserver ==
    \/ NextMon
    \/ RegisterObserver
    \/ \E new_state \in {ONLINE, RECONNECTING, OFFLINE} : ObserverEnds(new_state)

SpecObserver == Init /\ [][NextObserver]_vars

\* The manager with an observer whose calls are followed from their first
\* step; the calls last longer than the run.
NextDelivery ==
    \/ NextMon
    \/ RegisterObserver
    \/ \E i \in NotBegun : ObserverBegins(i)

SpecDelivery == Init /\ [][NextDelivery]_vars

\* One step of the monitor thread.
MonitorStep ==
    \/ MonWhile
    \/ MonPoll
    \/ MonSetReconnecting
    \/ MonFor
    \/ \E result \in ServiceResults : RcAuth(result)
    \/ \E result \in ServiceResults : RcEnter(result)
    \/ RcStopHeartbeat
    \/ RcJoinHeartbeat
    \/ RcStartHeartbeat
    \/ MonSetOnline
    \/ MonRetrySleep
    \/ MonSetOffline

\* The monitor thread is scheduled and its blocking calls (sleeps, service
\* calls and joins with a timeout) end; a heartbeat loop whose stop flag is set
\* exits. Nothing is assumed of the observer threads. (Every step of the
\* monitor moves monPc and every exit of a heartbeat loop changes hbAlive.)
FairSpecObserver ==
    /\ SpecObserver
    /\ WF_monPc(MonitorStep)
    /\ \A h \in HbIds : WF_hbAlive(HeartbeatExit(h))

SpecRPC == Init /\ [][NextRPC]_vars

\* future.result(timeout) returns or raises within its timeout, and the except
\* clause of call() runs to its end: the caller's thread is scheduled.
FairSpecRPC ==
    /\ SpecRPC
    /\ \A c \in Calls : WF_vars(Wait(c))
    /\ \A c \in Calls : WF_vars(TimeoutCleanup(c))

SpecResolve == Init /\ [][NextResolve]_vars

\* ---------------------------------------------------------------------------
\* start_heartbeat.heartbeat_loop, stop_heartbeat and send_stick_control, with
\* the clock of the telemetry cache (time.perf_counter and time.time advance
\* together, in seconds)
\* ---------------------------------------------------------------------------

MaxInterval == 2      \* the longest interval a heartbeat is started with
MaxStopCalls == 2     \* stop_heartbeat calls on the thread
MaxSticks == 2        \* send_stick_control calls
Intervals == 1..MaxInterval

\* int(time.time() * 1000): milliseconds in a second.
MsPerSecond == 1000

Min(a, b) == IF a <= b THEN a ELSE b

\* Line 40 with the mutation that never reads stop_flag.
LoopContinuesAlways(stop) == TRUE

\* Line 40: while not stop_flag.is_set().
LoopContinues(stop) == ~stop

\* Lines 61-63 with the mutation that always counts from `now`.
NextTickFromNow(tick, t, iv) == t + iv

\* Lines 61-63: next_tick += interval; if next_tick < now: next_tick = now + interval.
NextTick(tick, t, iv) == IF tick + iv < t THEN t + iv ELSE tick + iv

\* start_heartbeat lines 32-38 and 66-68: the thread starts, heartbeat_loop
\* sets next_tick and seq.
BeatStart(iv) ==
    /\ UNCHANGED <<rpcVars, monVars, cacheVars, connVars, importVars, photoVars, taskVars>>
    /\ beatPc = "none"
    /\ beatPc' = "while"
    /\ interval' = iv
    /\ next_tick' = clock
    /\ beatStart' = clock
    /\ seq' = clock * MsPerSecond
    /\ UNCHANGED <<now, hb_stop_flag, beatWake, published, stopHbPc, stopHbCalls,
                   reportedAlive, beats, fellBehind, lateBeats>>

\* Lines 40-52: the loop's test, then either the call of time.sleep or the
\* payload of the next heartbeat.
BeatTest ==
    /\ UNCHANGED <<rpcVars, monVars, cacheVars, connVars, importVars, photoVars, taskVars>>
    /\ beatPc = "while"
    /\ IF ~LoopContinues(hb_stop_flag)
       THEN /\ beatPc' = "exited"
            /\ UNCHANGED <<now, seq, beatWake>>
       ELSE /\ now' = clock
            /\ IF clock < next_tick
               THEN /\ beatPc' = "sleeping"
                    /\ beatWake' = clock + Min(interval, next_tick - clock)
                    /\ UNCHANGED seq
               ELSE /\ beatPc' = "publish"
                    /\ seq' = seq + 1
                    /\ UNCHANGED beatWake
    /\ UNCHANGED <<interval, next_tick, hb_stop_flag, published, stopHbPc, stopHbCalls,
                   reportedAlive, beatStart, beats, fellBehind, lateBeats>>

\* Lines 43-44: time.sleep returns, not before the time asked for; continue.
BeatWake ==
    /\ UNCHANGED <<rpcVars, monVars, cacheVars, connVars, importVars, photoVars, taskVars>>
    /\ beatPc = "sleeping"
    /\ clock >= beatWake
    /\ beatPc' = "while"
    /\ UNCHANGED <<interval, next_tick, now, seq, hb_stop_flag, beatWake, published,
                   stopHbPc, stopHbCalls, reportedAlive, beatStart, beats, fellBehind, lateBeats>>

\* Lines 55-63: publish (an exception of publish is caught and printed), then
\* the next deadline.
BeatPublish(sent) ==
    /\ UNCHANGED <<rpcVars, monVars, cacheVars, connVars, importVars, photoVars, taskVars>>
    /\ beatPc = "publish"
    /\ beatPc' = "while"
    /\ published' = IF sent
                     THEN Append(published, [method |-> "heart_beat", seq |-> seq])
                     ELSE published
    /\ lateBeats' = IF sent /\ hb_stop_flag THEN lateBeats + 1 ELSE lateBeats
    /\ next_tick' = NextTick(next_tick, now, interval)
    /\ beats' = beats + 1
    /\ fellBehind' = (fellBehind \/ next_tick + interval < now)
    /\ UNCHANGED <<interval, now, seq, hb_stop_flag, beatWake, stopHbPc, stopHbCalls,
                   reportedAlive, beatStart>>

\* stop_heartbeat lines 81-82: the thread has a stop_flag; it is set.
StopHeartbeatSet ==
    /\ UNCHANGED <<rpcVars, monVars, cacheVars, connVars, importVars, photoVars, taskVars>>
    /\ beatPc # "none"
    /\ stopHbPc = "idle"
    /\ stopHbCalls < MaxStopCalls
    /\ stopHbPc' = "join"
    /\ hb_stop_flag' = TRUE
    /\ UNCHANGED <<beatPc, interval, next_tick, now, seq, beatWake, published,
                   stopHbCalls, reportedAlive, beatStart, beats, fellBehind, lateBeats>>

\* stop_heartbeat lines 83-89: thread.join(timeout=5) returns, because the
\* thread exited or because the time is up; which of the two is printed.
StopHeartbeatJoin ==
    /\ UNCHANGED <<rpcVars, monVars, cacheVars, connVars, importVars, photoVars, taskVars>>
    /\ stopHbPc = "join"
    /\ stopHbPc' = "idle"
    /\ stopHbCalls' = stopHbCalls + 1
    /\ reportedAlive' = (beatPc # "exited")
    /\ UNCHANGED <<beatPc, interval, next_tick, now, seq, hb_stop_flag, beatWake,
                   published, beatStart, beats, fellBehind, lateBeats>>

Sticks == {i \in 1..Len(published) : published[i].method = "stick_control"}

\* send_stick_control lines 52-80 with stick values in range and seq = None:
\* seq is the current time in milliseconds.
StickControl ==
    /\ UNCHANGED <<rpcVars, monVars, cacheVars, connVars, importVars, photoVars, taskVars>>
    /\ Cardinality(Sticks) < MaxSticks
    /\ published' = Append(published,
                           [method |-> "stick_control", seq |-> clock * MsPerSecond])
    /\ UNCHANGED <<beatPc, interval, next_tick, now, seq, hb_stop_flag, beatWake,
                   stopHbPc, stopHbCalls, reportedAlive, beatStart, beats, fellBehind, lateBeats>>

NextHeartbeat ==
    \/ \E iv \in Intervals : BeatStart(iv)
    \/ BeatTest
    \/ BeatWake
    \/ \E sent \in BOOLEAN : BeatPublish(sent)
    \/ StopHeartbeatSet
    \/ StopHeartbeatJoin
    \/ Tick

NextDown ==
    \/ \E iv \in Intervals : BeatStart(iv)
    \/ BeatTest
    \/ BeatWake
    \/ \E sent \in BOOLEAN : BeatPublish(sent)
    \/ StickControl
    \/ Tick

\* The client on its own: the manager is not started and its configuration is fixed.
InitClient == Init /\ reconnect_attempts = MaxReconnectAttempts /\ telemetry_fresh

SpecPublish == InitClient /\ [][NextPublish]_vars

SpecRouter == InitClient /\ [][NextRouter]_vars

SpecReader == InitClient /\ [][NextReader]_vars

\* A thread waits for a fly-to event while progress events arrive and time passes.
SpecFlyto == InitClient /\ [][NextFlyto]_vars

\* Fly-to tasks are issued, their progress arrives and is monitored.
SpecTask == InitClient /\ [][NextTask]_vars

\* Telemetry pushes arrive and time passes.
SpecOnline == InitClient /\ [][NextOnline]_vars
SpecCallbacks == InitClient /\ [][NextCallbacks]_vars

\* One heartbeat thread, a thread that stops it, and time.
SpecHeartbeat == InitClient /\ [][NextHeartbeat]_vars

\* The messages on drc/down: one heartbeat thread and stick-control commands.
SpecDown == InitClient /\ [][NextDown]_vars

\* ---------------------------------------------------------------------------
\* MQTTClient.connect. The broker and the network thread of the transport
\* (loop_start) are the environment: the CONNACK arrives at any moment of the
\* wait, or never. A call of the transport (connect, subscribe) returns, having
\* done what it is called for, or raises.
\* ---------------------------------------------------------------------------

connect_timeout == 5

\* The return codes of a CONNACK: 0 accepts, on_connect names 1 to 5.
ReturnCodes == 0..5

\* self.client.is_connected(): the broker has accepted the connection.
is_connected == connack = Some(0)

\* The topics connect subscribes to, with their qos, in the order of the calls.
SubscribedTopics ==
    << [topic |-> "thing/product/{gateway_sn}/services_reply", qos |-> 1],
       [topic |-> "thing/product/{gateway_sn}/drc/up", qos |-> 0],
       [topic |-> "sys/product/{gateway_sn}/status", qos |-> 0],
       [topic |-> "thing/product/{gateway_sn}/events", qos |-> 0] >>

\* The wait loop without its timeout: after the 5 s it goes on to subscribe.
WaitOutcomeNoTimeout(connected, elapsed) ==
    IF connected \/ elapsed > connect_timeout THEN "subscribe" ELSE "wait"

\* connect lines 108-111: one test of the wait loop.
WaitOutcome(connected, elapsed) ==
    IF connected THEN "subscribe"
    ELSE IF elapsed > connect_timeout THEN "raised"
    ELSE "wait"

\* connect lines 71-103: a new client object with the handler registered;
\* self.client.connect returns (then loop_start) or raises, and the except
\* clause of lines 113-115 raises again.
ConnectBegin(ok) ==
    /\ connPc \in {"idle", "returned", "raised"}
    /\ UNCHANGED <<rpcVars, monVars, cacheVars, beatVars, importVars, taskVars>>
    /\ installed' = None
    /\ UNCHANGED <<photoPc, photoSeq, original_on_message, done, result_box,
                   lastInbound, missed>>
    /\ handler' = TRUE
    /\ subscribed' = <<>>
    /\ connack' = None
    /\ connElapsed' = 0
    /\ connPc' = IF ok THEN "wait" ELSE "raised"

\* on_connect lines 81-96: the CONNACK of the broker, accepting (rc = 0) or
\* refusing; a refusal is only printed.
BrokerConnack(rc) ==
    /\ connPc = "wait"
    /\ connack = None
    /\ UNCHANGED <<rpcVars, monVars, cacheVars, beatVars, importVars, photoVars, taskVars>>
    /\ connack' = Some(rc)
    /\ UNCHANGED <<connPc, handler, subscribed, connElapsed>>

\* connect lines 105-111: the wait loop; a step is the loop's tests during one
\* second of time.sleep(0.1).
ConnectWait ==
    /\ connPc = "wait"
    /\ UNCHANGED <<rpcVars, monVars, cacheVars, beatVars, importVars, photoVars, taskVars>>
    /\ connPc' = WaitOutcome(is_connected, connElapsed)
    /\ connElapsed' = IF connPc' = "wait" THEN connElapsed + 1 ELSE connElapsed
    /\ UNCHANGED <<connack, handler, subscribed>>

\* connect lines 117-135: the next of the four subscribe calls; after the
\* fourth connect returns.
ConnectSubscribe(ok) ==
    /\ connPc = "subscribe"
    /\ UNCHANGED <<rpcVars, monVars, cacheVars, beatVars, importVars, photoVars, taskVars>>
    /\ IF ok
       THEN /\ subscribed' = Append(subscribed, SubscribedTopics[Len(subscribed) + 1])
            /\ connPc' = IF Len(subscribed') = Len(SubscribedTopics)
                         THEN "returned" ELSE "subscribe"
       ELSE /\ connPc' = "raised"
            /\ UNCHANGED subscribed
    /\ UNCHANGED <<connack, handler, connElapsed>>

NextConnect ==
    \/ \E ok \in BOOLEAN : ConnectBegin(ok)
    \/ \E rc \in ReturnCodes : BrokerConnack(rc)
    \/ ConnectWait
    \/ \E ok \in BOOLEAN : ConnectSubscribe(ok)

SpecConnect == InitClient /\ [][NextConnect]_vars

\* ---------------------------------------------------------------------------
\* take_photo_wait (services/drc_commands.py): the on_message closure it puts
\* in place of the client's handler while it waits
\* ---------------------------------------------------------------------------

PhotoSeqs == 1..MaxPhotos
PhotoResults == {0, 1}

\* The inbound messages: a drc_camera_photo_take reply with a seq and a result
\* or with null as data, and a message of another method with a seq.
PhotoMessages ==
    {[method |-> method, seq |-> sq, data |-> data] :
        method \in {"drc_camera_photo_take", "osd_info_push"},
        sq \in PhotoSeqs,
        data \in {[result |-> result] : result \in PhotoResults} \cup {Null}}

\* What self.client.on_message is: Some(p) for the closure of call p of
\* take_photo_wait, None for what connect set, MQTTClient._on_message.
CurrentHandler == installed

\* The closures a message passes through from handler h on: each closure calls
\* the original_on_message it captured (lines 225-226).
RECURSIVE ChainFrom(_, _)
ChainFrom(h, fuel) ==
    IF h = None \/ fuel = 0 THEN <<>>
    ELSE h \o ChainFrom(original_on_message[h[1]], fuel - 1)

Chain == ChainFrom(CurrentHandler, MaxPhotos)

\* Line 220: the test the closure of call p makes on a message.
MatchesCall(p, m) == m.method = "drc_camera_photo_take" /\ m.seq = photoSeq[p]

\* Line 235, the finally clause: client.on_message = original_on_message.
PhotoRestore(p) == original_on_message[p]

\* take_photo_wait lines 205-213: without a client RuntimeError is raised;
\* otherwise the seq is fixed and the handler in place is captured.
PhotoCapture(p, sq) ==
    /\ photoPc[p] = "idle"
    /\ \A q \in Photos : q < p => photoPc[q] # "idle"
    /\ UNCHANGED <<rpcVars, monVars, cacheVars, beatVars, connVars, importVars, taskVars>>
    /\ IF ~handler
       THEN /\ photoPc' = [photoPc EXCEPT ![p] = "raised"]
            /\ UNCHANGED <<photoSeq, original_on_message>>
       ELSE /\ photoPc' = [photoPc EXCEPT ![p] = "captured"]
            /\ photoSeq' = [photoSeq EXCEPT ![p] = sq]
            /\ original_on_message' = [original_on_message EXCEPT ![p] = CurrentHandler]
    /\ UNCHANGED <<installed, done, result_box, lastInbound, missed>>

\* Lines 229-232: the closure is assigned to client.on_message, take_photo
\* publishes the command and done.wait(timeout) begins.
PhotoInstall(p) ==
    /\ photoPc[p] = "captured"
    /\ UNCHANGED <<rpcVars, monVars, cacheVars, beatVars, connVars, importVars, taskVars>>
    /\ installed' = Some(p)
    /\ photoPc' = [photoPc EXCEPT ![p] = "waiting"]
    /\ UNCHANGED <<photoSeq, original_on_message, done, result_box, lastInbound, missed>>

\* The network thread calls client.on_message with an inbound message (lines
\* 215-226): each closure on the way tests the message, fills its result_box
\* and sets done when it matches, and calls the handler it captured;
\* data.get on a null data raises out of the first closure that matches,
\* before that closure calls on.
PhotoInbound(m) ==
    /\ handler
    /\ \E p \in Photos : photoPc[p] = "waiting"
    /\ UNCHANGED <<rpcVars, monVars, cacheVars, beatVars, connVars, importVars, taskVars>>
    /\ LET matching == {i \in 1..Len(Chain) : MatchesCall(Chain[i], m)}
           raises == m.data = Null /\ matching # {}
           filled == IF raises THEN {} ELSE {Chain[i] : i \in matching}
           waiting == {p \in Photos : photoPc[p] = "waiting"}
       IN  /\ done' = [p \in Photos |-> done[p] \/ p \in filled]
           /\ result_box' = [p \in Photos |->
                                IF p \in filled
                                THEN Some([result |-> m.data.result, seq |-> m.seq])
                                ELSE result_box[p]]
           /\ lastInbound' = Some([waiting |-> waiting, forwarded |-> ~raises])
           /\ missed' = missed \cup
                  {p \in waiting : /\ MatchesCall(p, m) /\ m.data # Null
                                   /\ ~done[p]
                                   /\ \A i \in 1..Len(Chain) : Chain[i] # p}
    /\ UNCHANGED <<photoPc, photoSeq, original_on_message, installed>>

\* done.wait(timeout) returns True: the finally clause, then the return value
\* is built from result_box (lines 237-243).
PhotoReturn(p) ==
    /\ photoPc[p] = "waiting"
    /\ done[p]
    /\ UNCHANGED <<rpcVars, monVars, cacheVars, beatVars, connVars, importVars, taskVars>>
    /\ installed' = PhotoRestore(p)
    /\ photoPc' = [photoPc EXCEPT ![p] = "returned"]
    /\ UNCHANGED <<photoSeq, original_on_message, done, result_box, lastInbound, missed>>

\* done.wait(timeout) returns False: TimeoutError is raised through the
\* finally clause (lines 232-235).
PhotoTimeout(p) ==
    /\ photoPc[p] = "waiting"
    /\ ~done[p]
    /\ UNCHANGED <<rpcVars, monVars, cacheVars, beatVars, connVars, importVars, taskVars>>
    /\ installed' = PhotoRestore(p)
    /\ photoPc' = [photoPc EXCEPT ![p] = "timeout_raised"]
    /\ UNCHANGED <<photoSeq, original_on_message, done, result_box, lastInbound, missed>>

NextPhoto ==
    \/ \E ok \in BOOLEAN : ConnectBegin(ok)
    \/ \E p \in Photos, sq \in PhotoSeqs : PhotoCapture(p, sq)
    \/ \E p \in Photos : PhotoInstall(p)
    \/ \E m \in PhotoMessages : PhotoInbound(m)
    \/ \E p \in Photos : PhotoReturn(p)
    \/ \E p \in Photos : PhotoTimeout(p)

SpecPhoto == InitClient /\ [][NextPhoto]_vars

\* ---------------------------------------------------------------------------
\* import pydjimqtt: the from-import statements of the package's __init__,
\* taken one imported name at a time, and the test of the name that
\* test_public_api_exports makes
\* ---------------------------------------------------------------------------

\* What the __init__ of pydjimqtt.core binds.
CoreNames == {"MQTTClient", "ServiceCaller"}

\* What the __init__ of pydjimqtt.services binds: its four from-imports.
ServicesNames ==
    {"request_control_auth", "release_control_auth", "enter_drc_mode",
     "exit_drc_mode", "change_live_lens", "set_live_quality", "start_live_push",
     "stop_live_push", "return_home", "fly_to_point", "send_stick_control",
     "reset_gimbal", "setup_drc_connection", "setup_multiple_drc_connections"}
    \cup {"start_heartbeat", "stop_heartbeat"}
    \cup {"send_stick_control", "set_camera_zoom", "camera_look_at", "camera_aim"}
    \cup {"DRCConnectionManager", "ConnectionState"}

\* The functions of pydjimqtt/utils.py and pydjimqtt/live_utils.py that the
\* package imports.
UtilsNames == {"print_json_message", "get_key", "wait_for_camera_data", "build_video_id"}
LiveUtilsNames == {"start_live", "stop_live", "set_live_quality", "zoom_control_loop"}

\* What the __init__ of pydjimqtt.primitives and of pydjimqtt.tasks bind.
PrimitivesNames ==
    {"send_stick_repeatedly", "wait_for_condition", "fly_to_waypoint",
     "monitor_flyto_progress"}
TasksNames ==
    {"MissionRunner", "run_parallel_missions", "cleanup_missions",
     "create_takeoff_mission", "load_trajectory", "fly_trajectory_sequence",
     "create_trajectory_mission", "create_takeoff_table", "create_trajectory_table"}

\* The names among them that are bound to classes; the others are functions.
Classes ==
    {"MQTTClient", "ServiceCaller", "DRCConnectionManager", "ConnectionState",
     "MissionRunner"}

Modules == {"core", "services", "utils", "live_utils", "primitives", "tasks"}

\* The attributes of a sub-module of the package.
Namespace(module) ==
    CASE module = "core" -> CoreNames
      [] module = "services" -> ServicesNames
      [] module = "utils" -> UtilsNames
      [] module = "live_utils" -> LiveUtilsNames
      [] module = "primitives" -> PrimitivesNames
      [] module = "tasks" -> TasksNames

\* pydjimqtt/__init__.py lines 6-59: the names each from-import statement asks
\* of its module.
PackageImports ==
    [core |-> {"MQTTClient", "ServiceCaller"},
     services |->
        {"request_control_auth", "release_control_auth", "enter_drc_mode",
         "exit_drc_mode", "change_live_lens", "start_live_push", "stop_live_push",
         "return_home", "fly_to_point", "start_heartbeat", "stop_heartbeat",
         "send_stick_control", "set_camera_zoom", "take_photo", "take_photo_wait",
         "camera_look_at", "camera_aim", "reset_gimbal", "setup_drc_connection",
         "setup_multiple_drc_connections", "DRCConnectionManager",
         "ConnectionState"},
     utils |-> {"print_json_message", "get_key", "wait_for_camera_data",
                "build_video_id"},
     live_utils |-> {"start_live", "stop_live", "set_live_quality",
                     "zoom_control_loop"},
     primitives |-> {"wait_for_condition", "send_stick_repeatedly",
                     "fly_to_waypoint", "monitor_flyto_progress"},
     tasks |-> {"MissionRunner", "run_parallel_missions", "cleanup_missions",
                "create_takeoff_mission", "load_trajectory",
                "fly_trajectory_sequence", "create_trajectory_mission",
                "create_takeoff_table", "create_trajectory_table"}]

\* pydjimqtt.__all__, lines 63-115.
PackageAll ==
    {"MQTTClient", "ServiceCaller"}
    \cup {"request_control_auth", "release_control_auth", "enter_drc_mode",
          "exit_drc_mode", "change_live_lens", "set_live_quality",
          "start_live_push", "stop_live_push", "return_home", "fly_to_point",
          "start_heartbeat", "stop_heartbeat", "send_stick_control",
          "set_camera_zoom", "take_photo", "take_photo_wait", "camera_look_at",
          "camera_aim", "reset_gimbal", "setup_drc_connection",
          "setup_multiple_drc_connections", "DRCConnectionManager",
          "ConnectionState"}
    \cup {"print_json_message", "get_key", "wait_for_camera_data", "build_video_id"}
    \cup {"start_live", "stop_live", "zoom_control_loop"}
    \cup {"wait_for_condition", "send_stick_repeatedly", "fly_to_waypoint",
          "monitor_flyto_progress"}
    \cup {"MissionRunner", "run_parallel_missions", "cleanup_missions",
          "create_takeoff_mission", "load_trajectory", "fly_trajectory_sequence",
          "create_trajectory_mission", "create_takeoff_table",
          "create_trajectory_table"}

\* The module whose from-import statement names the name.
ImportedFrom(name) == CHOOSE module \in Modules : name \in PackageImports[module]

\* `from .module import name`: the attribute of the module, or ImportError.
FromImport(module, name) ==
    IF name \in Namespace(module)
    THEN Some(IF name \in Classes THEN "class" ELSE "function")
    ELSE None

\* The statement that imports a name of __all__ is reached: its module is
\* imported (its __init__ has run).
ImportStatement(name) ==
    /\ importPc = "none"
    /\ name \in UNION {PackageImports[module] : module \in Modules}
    /\ UNCHANGED <<rpcVars, monVars, cacheVars, beatVars, connVars, photoVars, taskVars>>
    /\ importName' = Some(name)
    /\ importPc' = "from"
    /\ UNCHANGED imported

\* The name is looked up in the module and bound in the package, or the
\* statement raises ImportError, and with it the import of the package.
ImportName ==
    /\ importPc = "from"
    /\ UNCHANGED <<rpcVars, monVars, cacheVars, beatVars, connVars, photoVars, taskVars>>
    /\ imported' = FromImport(ImportedFrom(importName[1]), importName[1])
    /\ importPc' = IF imported' = None THEN "ImportError" ELSE "bound"
    /\ UNCHANGED importName

\* test_public_api_exports lines 10-19 for the name: it is an attribute of the
\* package, and a class or a callable.
SmokeTest ==
    /\ importPc = "bound"
    /\ UNCHANGED <<rpcVars, monVars, cacheVars, beatVars, connVars, photoVars, taskVars>>
    /\ importPc' = IF imported = None THEN "missing"
                   ELSE IF imported[1] \in {"class", "function"} THEN "passed"
                   ELSE "non_callable"
    /\ UNCHANGED <<importName, imported>>

NextImport ==
    \/ \E name \in PackageAll : ImportStatement(name)
    \/ ImportName
    \/ SmokeTest

SpecImport == InitClient /\ [][NextImport]_vars

-----------------------------------------------------------------------------
(* Claims about request/reply correlation *)

Final == {"returned", "raised", "timeout_raised"}
TimeoutOutcome == [kind |-> "exception", value |-> "TimeoutError"]
HasEntry(c) == \E e \in pending_requests : Some(e[1]) = callTid[c]

\* C1: the pending table holds at most one entry per transaction id, and once a
\* request has been resolved by a matching reply, or its call() has returned or
\* raised (TimeoutError included), the table holds no entry for its id.
C1_PendingTable ==
    /\ \A e1, e2 \in pending_requests : e1[1] = e2[1] => e1 = e2
    /\ \A c \in Calls :
         (futures[c].kind # "pending" \/ callPc[c] \in Final) => ~HasEntry(c)

\* C1's case: one call resolved by its reply, another timed out, table empty.
C1_Witness ==
    \E a, b \in Calls :
        /\ callPc[a] = "returned" /\ resolvedBy[a] # None
        /\ callPc[b] = "timeout_raised"
        /\ pending_requests = {}

\* C2: a call whose tid no handled message carries ends (it does not wait
\* forever), and it ends by raising TimeoutError with its tid absent from the
\* table; a cleanup_request for that tid afterwards changes nothing.
C2_TimeoutCleansUp ==
    /\ \A c \in Calls : (callPc[c] = "waiting") ~> (callPc[c] \in Final)
    /\ [](\A c \in Calls :
            (callPc[c] \in Final /\ ~replied[c]) =>
                /\ callPc[c] = "timeout_raised"
                /\ outcomes[c] = <<TimeoutOutcome>>
                /\ ~HasEntry(c))
    /\ [][\A c \in Calls : CleanupAgain(c) => pending_requests' = pending_requests]_vars

\* C2's case: a call that got no reply has raised TimeoutError and
\* cleanup_request was called once more for its tid.
C2_Witness ==
    \E c \in Calls :
        callPc[c] = "timeout_raised" /\ ~replied[c] /\ cleanedAgain[c]

\* C3: every call that has ended gave its caller exactly one outcome (what the
\* reply set in the future, or TimeoutError), a call that waits ends, no future
\* is resolved twice, and a reply handled after another reply with the same tid
\* or after the call raised TimeoutError changes neither the table nor any
\* future nor any outcome.
C3_OneOutcome ==
    /\ \A c \in Calls : (callPc[c] = "waiting") ~> (Len(outcomes[c]) = 1)
    /\ [](\A c \in Calls :
            /\ Len(outcomes[c]) = (IF callPc[c] \in Final THEN 1 ELSE 0)
            /\ setCount[c] <= 1
            /\ callPc[c] \in {"returned", "raised"} =>
                 /\ resolvedBy[c] # None
                 /\ outcomes[c] = <<futures[c]>>
                 /\ (callPc[c] = "returned") = (futures[c].kind = "result")
            /\ callPc[c] = "timeout_raised" => outcomes[c] = <<TimeoutOutcome>>)
    /\ [][\A c \in Calls :
            (replied[c] \/ callPc[c] = "timeout_raised") =>
                \A m \in RepliesFor(callTid[c]) :
                    OnMessage(m) => /\ pending_requests' = pending_requests
                                    /\ futures' = futures
                                    /\ outcomes' = outcomes]_vars
    /\ [][\A c \in Calls : outcomes[c] # <<>> => outcomes'[c] = outcomes[c]]_vars

\* C3's case: the reply arrived after future.result() had timed out and before
\* the cleanup (it resolved the future), the caller got TimeoutError, and a
\* later copy of the reply was discarded.
C3_Witness ==
    \E c \in Calls :
        /\ callPc[c] = "timeout_raised"
        /\ futures[c].kind = "result"
        /\ setCount[c] = 1
        /\ discarded[c]

EnvelopeFails(m) == m.info # NoInfo /\ m.info.code # Some(0)
BodyFails(m) == m.data # Null /\ m.data.result # None /\ m.data.result # Some(0)

\* C4: the future a reply resolves, and what call() then gives its caller, is
\* decided in this order: an envelope info (not empty) whose code is not 0
\* makes the call fail with the envelope's message; otherwise a body result
\* that is not 0 makes it fail with the body's message; otherwise the call
\* returns the reply's data body.
C4_Precedence ==
    \A c \in Calls : resolvedBy[c] # None =>
        LET m == resolvedBy[c][1]
            f == futures[c]
        IN  /\ EnvelopeFails(m) =>
                /\ f.kind = "exception"
                /\ f.value = (IF m.info.message = None THEN "Unknown error"
                              ELSE m.info.message[1])
            /\ (~EnvelopeFails(m) /\ BodyFails(m)) =>
                /\ f.kind = "exception"
                /\ f.value = (IF m.data.msg = None THEN "Unknown error"
                              ELSE m.data.msg[1])
            /\ (~EnvelopeFails(m) /\ ~BodyFails(m)) =>
                f = [kind |-> "result", value |-> m.data]
            /\ callPc[c] \in {"returned", "raised"} =>
                /\ outcomes[c] = <<f>>
                /\ (callPc[c] = "raised") = (EnvelopeFails(m) \/ BodyFails(m))

\* C4's case: a reply in which both encodings signal failure made call() raise
\* the envelope's message.
C4_Witness ==
    \E c \in Calls :
        /\ callPc[c] = "raised"
        /\ resolvedBy[c] # None
        /\ resolvedBy[c][1].info = [code |-> Some(1), message |-> Some("envelope_error")]
        /\ resolvedBy[c][1].data = [result |-> Some(1), msg |-> Some("body_error")]
        /\ outcomes[c] = <<[kind |-> "exception", value |-> "envelope_error"]>>

-----------------------------------------------------------------------------
(* Claims about the connection manager *)

\* Where the monitor is between two reconnection cycles.
BetweenCycles == {"while", "sleep", "exited"}

\* C5: the state never changes from Online directly to Offline: every change
\* to Offline is a change from Reconnecting.
C5_OfflineOnlyFromReconnecting ==
    [][(state' = OFFLINE /\ state # OFFLINE) => state = RECONNECTING]_vars

\* C5's case: with reconnect_attempts = 0 and stop signalled, the state has
\* become Offline.
C5_Witness == state = OFFLINE /\ reconnect_attempts = 0 /\ stop_flag

\* C6: when a cycle has ended with reconnect_attempts failed attempts, the
\* state is Offline; the state is set to Offline only after exactly
\* reconnect_attempts attempts, all failed; and once Offline the monitor begins
\* no cycle or attempt and the state stays Offline.
C6_ExhaustionIsTerminal ==
    /\ [](/\ (monPc \in BetweenCycles /\ lastResult = "failure"
                /\ failures = reconnect_attempts) => state = OFFLINE
          /\ state = OFFLINE => monPc \in BetweenCycles)
    /\ [][(state' = OFFLINE /\ state # OFFLINE) =>
             (attempt = reconnect_attempts /\ failures = reconnect_attempts)]_vars
    /\ [][state = OFFLINE =>
             (state' = OFFLINE /\ attempt' = attempt /\ failures' = failures)]_vars

\* C6's case: all of the (at least two) attempts failed with no stop signal,
\* the state is Offline, telemetry is fresh again and the monitor still polls.
C6_Witness ==
    /\ state = OFFLINE /\ reconnect_attempts >= 2 /\ failures = reconnect_attempts
    /\ ~stop_flag /\ telemetry_fresh /\ monPc = "sleep"

\* C7: once an attempt of a cycle has succeeded, it is the first one that did
\* (all attempts before it failed), the state goes from Reconnecting to Online,
\* no further attempt of the cycle is made and the state is not Offline.
C7_FirstSuccessEndsCycle ==
    /\ [](lastResult = "success" =>
            /\ attempt = failures + 1
            /\ monPc \in BetweenCycles \cup {"set_online", "set_reconnecting"}
            /\ state = (IF monPc = "set_online" THEN RECONNECTING ELSE ONLINE))
    /\ [][(lastResult = "success" /\ lastResult' = "success") =>
             (attempt' = attempt /\ failures' = failures)]_vars

\* C7's case: the second attempt of three succeeded; the state is Online and
\* the third attempt was not made.
C7_Witness ==
    /\ lastResult = "success" /\ state = ONLINE /\ monPc = "sleep"
    /\ failures = 1 /\ attempt = 2 /\ reconnect_attempts = 3

\* C8: in the retry loop with the state Reconnecting, after an attempt has
\* been made and while attempts remain, no further attempt begins when
\* telemetry is fresh.
C8_ResumeEndsRetries ==
    [][(/\ state = RECONNECTING /\ ~stop_flag
        /\ telemetry_fresh /\ telemetry_fresh'
        /\ attempt >= 1 /\ attempt < reconnect_attempts)
       => ~(monPc # "rc_auth" /\ monPc' = "rc_auth")]_vars

\* C9: once stop_flag is set no attempt begins, and the state is set to
\* Offline only if all reconnect_attempts attempts were made and failed.
C9_StopEndsRetries ==
    /\ [][stop_flag => ~(monPc # "rc_auth" /\ monPc' = "rc_auth")]_vars
    /\ [][(stop_flag /\ state' = OFFLINE /\ state # OFFLINE) =>
             failures = reconnect_attempts]_vars
    /\ [](stop_flag /\ monPc = "exited" /\ lastResult = "failure"
            /\ failures < reconnect_attempts => state = RECONNECTING)

\* C9's case: stop was signalled during the first attempt; the attempt
\* failed, the other attempts were not made, the monitor has exited and the
\* state is still Reconnecting.
C9_Witness ==
    /\ stop_flag /\ monPc = "exited" /\ state = RECONNECTING
    /\ failures = 1 /\ reconnect_attempts = 3

\* C10: after stop() has returned, every heartbeat loop still running has its
\* stop flag set (none is running unsignalled, none was started since).
C10_StopStopsHeartbeat == stopPc = "returned" => hbAlive \subseteq hbStop

-----------------------------------------------------------------------------
(* Claims about the state-change observer *)

\* C11: a step that changes the state while an observer is registered starts
\* exactly one observer thread, with the new state; a step that leaves the
\* state unchanged, or is taken with no observer registered, starts none; and
\* when the monitor sets Offline, that "offline" is the only one notified in
\* the cycle and nothing is notified after it.
C11_ObserverOncePerChange ==
    /\ [][(state' # state /\ on_state_change) =>
             /\ notified' = Append(notified, state')
             /\ obsRunning' = obsRunning \cup {state'}]_vars
    /\ [][(state' = state \/ ~on_state_change) =>
             /\ notified' \in {notified, <<>>}
             /\ obsRunning' \subseteq obsRunning]_vars
    /\ [][(state' = OFFLINE /\ state # OFFLINE /\ on_state_change) =>
             \A i \in 1..Len(notified) : notified[i] # OFFLINE]_vars
    /\ [][state = OFFLINE => notified' = notified]_vars

\* C11's case: all three attempts failed with an observer registered; it was
\* started with "reconnecting" and then, once, with "offline".
C11_Witness ==
    /\ on_state_change /\ state = OFFLINE /\ monPc = "sleep"
    /\ reconnect_attempts = 3 /\ failures = 3
    /\ notified = <<RECONNECTING, OFFLINE>>

\* C12: whatever the observer threads do, the monitor thread, unless it has
\* exited, comes back to its poll; and a reconnection cycle begun while an
\* observer started earlier is still running sets the state again and starts
\* the observer for it.
C12_ObserverCannotStall ==
    /\ [](monPc \notin {"not_started", "exited"} =>
            <>(monPc = "sleep" \/ monPc = "exited"))
    /\ [][(monPc \in {"set_online", "set_offline"} /\ monPc' # monPc
            /\ RECONNECTING \in obsRunning) =>
             /\ state' # state
             /\ notified' = Append(notified, state')]_vars

\* C12's case: the observer started with "reconnecting" has not ended; the
\* cycle went on, the state is Online again and the monitor polls.
C12_Witness ==
    /\ RECONNECTING \in obsRunning /\ state = ONLINE /\ monPc = "sleep"
    /\ notified = <<RECONNECTING, ONLINE>> /\ failures >= 1

-----------------------------------------------------------------------------
(* Claims about the router and the telemetry cache *)

\* A list field as the reader sees it: the list's contents, or None.
Deref(field) == IF field = None THEN None ELSE heap[field[1]]

\* The fields of the cache a push of the method writes, lists by their contents.
GroupOf(method) ==
    CASE method = "osd_info_push" -> [k \in OsdPushKeys |-> osd_data[k]]
      [] method = "hsi_info_push" -> [k \in HsiPushKeys |-> osd_data[k]]
      [] method = "drc_batteries_info_push" -> [k \in BatteryKeys |-> osd_data[k]]
      [] method = "drc_drone_state_push" -> drone_state
      [] method = "update_topo" ->
            IF topo_data = None THEN None
            ELSE Some([topo_data[1] EXCEPT !.sub_devices = Deref(@)])
      [] method = "drc_camera_osd_info_push" -> camera_osd
      [] method = "fly_to_point_progress" ->
            [flyto_progress EXCEPT !.planned_path_points = Deref(@)]

\* What the data of a push carries for those fields: the value of each key, None
\* for a key that is missing.
Carried(method, data) ==
    CASE method = "drc_batteries_info_push" ->
            [k \in BatteryKeys |-> data.capacity_percent]
      [] method = "drc_drone_state_push" ->
            [k \in DroneStateKeys |->
                IF k \notin LimitKeys THEN data[k]
                ELSE IF data.limit \in {None, Some(Null)} THEN None
                ELSE data.limit[1][k]]
      [] method = "update_topo" -> IF data = Null THEN None ELSE Some(data)
      [] OTHER -> data

\* A push the handler processes without an error.
WellFormed(raw) ==
    /\ raw # Unparsable
    /\ raw.method \in KnownMethods
    /\ raw.data # Null
    /\ raw.method = "drc_drone_state_push" => raw.data.limit # Some(Null)

\* What a well-formed push does to the cache's groups, the pending table, the
\* futures and the arrival window.
PushFrame(raw) ==
    /\ GroupOf(raw.method)' = Carried(raw.method, raw.data)
    /\ \A other \in KnownMethods \ {raw.method} : GroupOf(other)' = GroupOf(other)
    /\ pending_requests' = pending_requests
    /\ futures' = futures
    /\ raw.method # "osd_info_push" =>
          /\ last_osd_time' = last_osd_time
          /\ osd_timestamps' = osd_timestamps

\* C17 as stated: a well-formed push writes the fields of its group, each to
\* the value it carries, and nothing else of the cache (the take-off height
\* included), of the pending table or, unless it is an OSD push, of the arrival
\* window.
C17_PushFrame ==
    [][\A raw \in RouterMessages :
         (handled' # handled /\ lastMsg' = Some(raw) /\ WellFormed(raw)) =>
            /\ PushFrame(raw)
            /\ takeoff_height' = takeoff_height]_vars

\* C17 amended: as above, except that an OSD push whose height is not null
\* also becomes the take-off height when none has been recorded yet.
C17_PushFrameTakeoff ==
    [][\A raw \in RouterMessages :
         (handled' # handled /\ lastMsg' = Some(raw) /\ WellFormed(raw)) =>
            /\ PushFrame(raw)
            /\ takeoff_height' =
                  IF /\ raw.method = "osd_info_push"
                     /\ raw.data.height # None /\ takeoff_height = None
                  THEN raw.data.height ELSE takeoff_height]_vars

\* C17's case: an HSI push came after an OSD push; the OSD fields and the
\* take-off height are those of the OSD push, the HSI fields those of the HSI push.
C17_Witness ==
    /\ lastMsg = Some(Push("hsi_info_push", None, Full(HsiPushKeys, 1)))
    /\ GroupOf("osd_info_push") = Full(OsdPushKeys, 2)
    /\ GroupOf("hsi_info_push") = Full(HsiPushKeys, 1)
    /\ takeoff_height = Some(2)

\* C18: each handled message is a cache update (known method: the table and
\* the futures are untouched, whether or not a tid is carried), or the
\* resolution of one pending request (the entry is removed and its future is
\* set), or a discard that changes nothing; without a known method and without
\* a tid that has an entry, nothing changes.
C18_ExactlyOneRoute ==
    [][handled' # handled =>
         LET raw == lastMsg'[1]
             known == raw # Unparsable /\ raw.method \in KnownMethods
             removed == pending_requests \ pending_requests'
             set == {c \in Calls : futures'[c] # futures[c]}
         IN  /\ pending_requests' \subseteq pending_requests
             /\ known => (removed = {} /\ set = {})
             /\ ~known => cacheData' = cacheData
             /\ Cardinality(removed) <= 1
             /\ set = {e[2] : e \in removed}
             /\ (~known /\ (raw = Unparsable \/ raw.tid = None
                              \/ DictGet(pending_requests, raw.tid[1]) = None)) =>
                   (removed = {} /\ set = {})]_vars

\* C19: no exception leaves _on_message, and after a message that could not be
\* parsed or processed a well-formed push still updates its group and a reply
\* for a pending request still removes the entry and sets the future as the
\* reply says.
C19_BadMessageIsContained ==
    /\ [](~raised_out)
    /\ [][\A raw \in RouterMessages :
             (/\ handled' # handled /\ badSeen
              /\ lastMsg' = Some(raw) /\ WellFormed(raw)) => PushFrame(raw)]_vars
    /\ [][(handled' # handled /\ badSeen) =>
             LET raw == lastMsg'[1] IN
             (/\ raw # Unparsable /\ raw.method = "other" /\ raw.tid # None
              /\ DictGet(pending_requests, raw.tid[1]) # None
              /\ ResolveReply(raw).kind # "raise") =>
                LET c == DictGet(pending_requests, raw.tid[1])[1] IN
                /\ DictGet(pending_requests', raw.tid[1]) = None
                /\ futures'[c] = ResolveReply(raw)]_vars

\* C19's case: a push whose data is null was handled, and the reply handled
\* after it resolved the pending request.
C19_Witness ==
    /\ badSeen /\ handled = 2
    /\ lastMsg # None /\ lastMsg[1] # Unparsable /\ lastMsg[1].method = "other"
    /\ futures[1].kind = "result" /\ pending_requests = {}

\* What an accessor returns when the cache holds exactly what one push of its
\* method carried (pushed = Some(data)), or nothing yet (pushed = None).
ReadOf(accessor, pushed) ==
    LET method == MethodOf(accessor)
        group == IF pushed = None
                 THEN (IF method = "update_topo" THEN None
                       ELSE [k \in DOMAIN GroupOf(method) |-> None])
                 ELSE Carried(method, pushed[1])
        other == [k \in {} |-> None]
    IN  CASE method = "osd_info_push" -> Read(accessor, group, other, None, other, other)
          [] method = "drc_camera_osd_info_push" ->
                Read(accessor, other, other, None, group, other)
          [] method = "drc_drone_state_push" ->
                Read(accessor, other, group, None, other, other)
          [] method = "fly_to_point_progress" ->
                Read(accessor, other, other, None, other, group)
          [] method = "update_topo" -> Read(accessor, other, other, group, other, other)

\* The accessor call was made after two pushes of its method, the earlier of
\* them well formed.
ReadAfterTwoPushes ==
    /\ held # None
    /\ heldDeep[1].earlier # None
    /\ WellFormed(Push(MethodOf(held[1].accessor), None, heldDeep[1].earlier[1]))

\* C15: the value an accessor call returned after two pushes of its method is
\* what the last of them carried: no field of it comes from the earlier push.
C15_NoTornRead ==
    ReadAfterTwoPushes =>
        heldDeep[1].value = ReadOf(held[1].accessor, heldDeep[1].pushed)

\* C16: a push handled after an accessor has returned does not change the
\* returned value, and nothing the caller does with the returned value (its
\* keys, the lists inside it) changes what the cache holds.
C16_ReturnsCopies ==
    /\ [][(handled' # handled /\ held # None) =>
             Deep(held[1].accessor, held[1].value, heap)'
               = Deep(held[1].accessor, held[1].value, heap)]_vars
    /\ [][handled' = handled =>
             \A method \in KnownMethods : GroupOf(method)' = GroupOf(method)]_vars

\* ---------------------------------------------------------------------------
\* Claims about wait_for_flyto_event and is_online
\* ---------------------------------------------------------------------------

\* C13: the record wait_for_flyto_event returned carries the expected task id
\* and a terminal status; a terminal record of another task is never returned.
C13_ReturnsOnlyExpectedTask ==
    waitResult # None =>
        /\ waitPc = "returned"
        /\ waitResult[1]["fly_to_id"] = expected_fly_to_id
        /\ waitResult[1]["status"] \in {Some(t) : t \in terminal_statuses}

\* The wait for X read the terminal record of another task, went on, and
\* returned on the terminal event of X.
C13_Witness ==
    /\ waitPc = "returned"
    /\ expected_fly_to_id = Some("X")
    /\ skippedStale
    /\ prevPush["fly_to_point_progress"] # None
    /\ prevPush["fly_to_point_progress"][1].fly_to_id = Some("W")

\* C14: when a terminal event of the expected task was received before the
\* timeout elapsed, and the waiting thread polled the cache after it and in
\* time, wait_for_flyto_event does not raise TimeoutError.
C14_TerminalEventIsReturned ==
    waitPc = "raised" => termEvent # "polled"

\* Whether a push that arrived at time `last` (0: none did) is less than
\* `tmo` seconds old.
Recent(last, tmo) == last # 0 /\ clock - last < tmo

\* C20 as stated: is_online(timeout) is true exactly when a telemetry push of
\* some type has arrived and the last one arrived less than timeout seconds ago.
C20_IsOnlineAnyTelemetry ==
    \A tmo \in Timeouts : is_online(tmo) = Recent(arrived.any, tmo)

\* C20, amended: is_online(timeout) is true exactly when an osd_info_push has
\* arrived and the last one arrived less than timeout seconds ago.
C20_IsOnlineOsd ==
    \A tmo \in Timeouts : is_online(tmo) = Recent(arrived.osd, tmo)

\* An OSD push arrived, then a push of another type, and the OSD push is
\* exactly tmo seconds old: is_online(tmo) is false.
C20_Witness ==
    \E tmo \in Timeouts :
        /\ arrived.osd # 0
        /\ arrived.any > arrived.osd
        /\ clock - arrived.osd = tmo
        /\ ~is_online(tmo)

\* ---------------------------------------------------------------------------
\* Claims about the arrival window of the OSD pushes
\* ---------------------------------------------------------------------------

\* The message is an osd_info_push whose data is a dictionary.
IsOsdPush(raw) == IsPush(raw) /\ raw.method = "osd_info_push"

\* C21: when an OSD push has been recorded the window is not empty, ends with
\* the time of that push, is in arrival order, holds no timestamp more than
\* freq_window older than the newest, and is the window before the push plus
\* the new timestamp less the entries that are too old.
C21_WindowAfterPush ==
    [][\A raw \in OnlineMessages :
          (handled' # handled /\ lastMsg' = Some(raw) /\ IsOsdPush(raw)) =>
              /\ osd_timestamps' # <<>>
              /\ osd_timestamps'[Len(osd_timestamps')] = clock
              /\ \A i, j \in 1..Len(osd_timestamps') :
                    i <= j => osd_timestamps'[i] <= osd_timestamps'[j]
              /\ \A i \in 1..Len(osd_timestamps') :
                    osd_timestamps'[Len(osd_timestamps')] - osd_timestamps'[i]
                        <= freq_window
              /\ osd_timestamps' =
                    SelectSeq(Append(osd_timestamps, clock),
                              LAMBDA t : clock - t <= freq_window)]_vars

\* A second OSD push was recorded more than freq_window after the first, whose
\* timestamp was removed at that insert.
C21_Witness ==
    /\ prevPush["osd_info_push"] # None
    /\ lastMsg # None
    /\ IsOsdPush(lastMsg[1])
    /\ osd_timestamps = <<clock>>
    /\ arrived.osd = clock

\* Quotients q and r are the same number.
SameHz(q, r) == q[1] * r[2] = r[1] * q[2]

\* The timestamps are one second or more apart, all by the same step.
Uniform(ts, step) == \A i \in 1..(Len(ts) - 1) : ts[i + 1] - ts[i] = step

\* C22: get_osd_frequency returns 0 for a window of fewer than two timestamps
\* or of equal first and last timestamps, otherwise (number of timestamps
\* minus 1) / (last minus first); for N timestamps a step apart that is
\* (N-1)/D with D = (N-1) * step.
C22_Frequency ==
    LET n == Len(osd_timestamps) IN
    /\ n < 2 => get_osd_frequency = ZeroHz
    /\ (n >= 2 /\ osd_timestamps[1] = osd_timestamps[n]) => get_osd_frequency = ZeroHz
    /\ (n >= 2 /\ osd_timestamps[1] # osd_timestamps[n]) =>
          /\ get_osd_frequency = <<n - 1, osd_timestamps[n] - osd_timestamps[1]>>
          /\ \A step \in 1..freq_window :
                Uniform(osd_timestamps, step) =>
                    SameHz(get_osd_frequency, <<n - 1, (n - 1) * step>>)

\* Two timestamps or more, the first and last different: a frequency above 0.
C22_Witness ==
    /\ Len(osd_timestamps) >= 2
    /\ osd_timestamps[1] # osd_timestamps[Len(osd_timestamps)]
    /\ get_osd_frequency # ZeroHz

\* ---------------------------------------------------------------------------
\* Claims about the heartbeat loop and the messages on drc/down
\* ---------------------------------------------------------------------------

\* C23: the loop goes on to publish only when the time has reached next_tick;
\* a sleep asks for no more than the time that remains to next_tick; after a
\* publish next_tick is the old next_tick plus interval, or now plus interval
\* when the former is less than now; and while no deadline was set from now,
\* the deadline after k publishes is the first deadline plus k * interval.
C23_DeadlineSchedule ==
    /\ [][(beatPc = "while" /\ beatPc' = "publish") => clock >= next_tick]_vars
    /\ [](beatPc = "publish" => (now >= next_tick /\ clock >= now))
    /\ [][(beatPc = "while" /\ beatPc' = "sleeping") =>
             /\ beatWake' > clock
             /\ beatWake' - clock <= next_tick - clock
             /\ published' = published]_vars
    /\ [][(beatPc = "publish" /\ beatPc' = "while") =>
             next_tick' = IF next_tick + interval < now
                          THEN now + interval
                          ELSE next_tick + interval]_vars
    /\ []((beatPc # "none" /\ ~fellBehind) => next_tick = beatStart + beats * interval)

\* The loop published on time, then came back more than one interval late and
\* set its deadline from now.
C23_Witness ==
    /\ beats >= 2
    /\ fellBehind
    /\ next_tick = now + interval
    /\ next_tick # beatStart + beats * interval

\* The loop's own variables.
loopVars == <<beatPc, interval, next_tick, now, seq, beatWake, published, beats>>

\* C24: stop_heartbeat sets stop_flag and returns whether the thread exited or
\* not, changing nothing else of the loop, the first time and again; with the
\* flag set the loop's next test ends it, at most one heartbeat is published
\* after the flag was set, and none after the thread has exited.
C24_StopHeartbeat ==
    /\ [][(stopHbPc = "idle" /\ stopHbPc' = "join") =>
             (hb_stop_flag' /\ UNCHANGED loopVars)]_vars
    /\ [][(stopHbPc = "join" /\ stopHbPc' = "idle") =>
             /\ reportedAlive' = (beatPc # "exited")
             /\ hb_stop_flag'
             /\ UNCHANGED loopVars]_vars
    /\ [][(hb_stop_flag /\ beatPc = "while" /\ beatPc' # "while") =>
             beatPc' = "exited"]_vars
    /\ [](lateBeats <= 1)
    /\ [][beatPc = "exited" => (beatPc' = "exited" /\ published' = published)]_vars
    /\ [][hb_stop_flag => hb_stop_flag']_vars

\* stop_heartbeat was called twice; the heartbeat in progress at the first
\* call was published, and the thread has exited.
C24_Witness ==
    /\ stopHbCalls >= 2
    /\ lateBeats = 1
    /\ beatPc = "exited"
    /\ ~reportedAlive

\* C27: in publish order, a heartbeat that follows a stick-control command
\* carries a seq that is not smaller than the command's.
C27_SeqMonotonic ==
    \A i, j \in 1..Len(published) :
        (i < j /\ published[i].method = "stick_control"
               /\ published[j].method = "heart_beat") =>
            published[i].seq <= published[j].seq

\* ---------------------------------------------------------------------------
\* Claims about the re-entry attempt
\* ---------------------------------------------------------------------------

\* The heartbeat loops that run and have not been told to stop.
Beating == hbAlive \ hbStop

C29_OnlineOnlyWhenFresh ==
    [][(monPc \notin {"not_started", "while"} /\ monPc' = "while" /\ state' = ONLINE) =>
          telemetry_fresh]_vars

\* The replies with result 0 that let the attempt go on to a given step.
BothAccepted == <<"result_0", "result_0">>

\* C30: an attempt takes its steps in the order cloud_control_auth_request,
\* drc_mode_enter, stop_heartbeat, start_heartbeat, each only after the one
\* before it; drc_mode_enter is sent only after the authority request was
\* answered with result 0, the heartbeat is stopped and started only after
\* both requests were answered with result 0; a request that raises, or is
\* answered with no result 0 (a reply without a result field included), ends
\* the attempt as a failure with nothing further sent; and the attempt is a
\* success exactly when start_heartbeat has run.
C30_StepsInOrder ==
    /\ [](monPc = "rc_auth" => callLog = <<>>)
    /\ [](monPc = "rc_enter" => callLog = <<"result_0">>)
    /\ [](monPc \in {"rc_hb_stop", "rc_hb_join", "rc_hb_start"} =>
             callLog = BothAccepted)
    /\ [][(monPc' = "rc_enter" /\ monPc # "rc_enter") => monPc = "rc_auth"]_vars
    /\ [][(monPc' = "rc_hb_stop" /\ monPc # "rc_hb_stop") => monPc = "rc_enter"]_vars
    /\ [][(monPc' = "rc_hb_start" /\ monPc # "rc_hb_start") =>
             monPc \in {"rc_hb_stop", "rc_hb_join"}]_vars
    /\ [][(Len(callLog') = Len(callLog) + 1
            /\ callLog'[Len(callLog')] # "result_0") =>
             /\ monPc' \notin {"rc_enter", "rc_hb_stop", "rc_hb_join", "rc_hb_start",
                               "set_online"}
             /\ lastResult' = "failure"
             /\ failures' = failures + 1
             /\ hbAlive' = hbAlive /\ hbStop' = hbStop]_vars
    /\ [][(lastResult' = "success" /\ lastResult # "success") =>
             (monPc = "rc_hb_start" /\ monPc' = "set_online")]_vars
    /\ [][(monPc = "rc_hb_start" /\ monPc' # monPc) =>
             (lastResult' = "success" /\ monPc' = "set_online")]_vars
    /\ [](monPc = "set_online" => (lastResult = "success" /\ callLog = BothAccepted))

\* An attempt of the cycle has failed, and a later attempt has had both
\* requests answered with result 0 and has restarted the heartbeat.
C30_Witness ==
    /\ monPc = "set_online"
    /\ failures >= 1
    /\ lastResult = "success"
    /\ callLog = BothAccepted

\* ---------------------------------------------------------------------------
\* Claims about MQTTClient.connect
\* ---------------------------------------------------------------------------

C28_PublicApiImports ==
    /\ PackageAll \subseteq UNION {PackageImports[module] : module \in Modules}
    /\ importPc \notin {"ImportError", "missing", "non_callable"}

\* ---------------------------------------------------------------------------
\* Claims about messages whose processing fails, and about the replies
\* ---------------------------------------------------------------------------

\* C31: a message on which the handler fails leaves the telemetry cache and
\* the pending table as they were before it.
C31_FailedMessageIsDropped ==
    [][(handled' # handled /\ HandlerError(lastMsg'[1]) # "none") =>
          (cacheData' = cacheData /\ pending_requests' = pending_requests)]_vars

\* C32: when the handler removes an entry from the pending table, the future
\* of that entry has a result or an exception when the handler returns.
C32_MatchedReplyResolves ==
    [][handled' # handled =>
          \A e \in pending_requests \ pending_requests' :
              futures'[e[2]].kind # "pending"]_vars

\* The entry of the call in the pending table, None if there is none.
EntryOf(c) == IF callTid[c] = None THEN None
              ELSE DictGet(pending_requests, callTid[c][1])

\* C33: when call() has raised because the request could not be handed to the
\* transport, the pending table holds no entry for the call's transaction id.
C33_FailedPublishLeavesNoEntry ==
    \A c \in Calls : callPc[c] = "publish_raised" => EntryOf(c) = None

\* C34: when the request is handed to the transport its entry is in the
\* pending table, with the future call() will wait on; and a reply that finds
\* no entry for its transaction id comes after an earlier reply with that id
\* or after the call has timed out and cleaned up.
C34_RegisteredBeforeSent ==
    /\ [][\A c \in Calls :
            (callPc[c] = "publishing" /\ callPc'[c] # "publishing") =>
                EntryOf(c) = Some(c)]_vars
    /\ [][\A c \in Calls :
            (discarded'[c] /\ ~discarded[c]) =>
                (replied[c] \/ callPc[c] = "timeout_raised")]_vars
    /\ [](\A c \in Calls : (callPc[c] = "waiting" /\ ~replied[c]) => EntryOf(c) = Some(c))

\* The first reply to a request has been handled and call() has returned its
\* result; a second reply with the same tid found no entry.
C34_Witness ==
    /\ callPc[1] = "returned"
    /\ replied[1] /\ discarded[1]
    /\ EntryOf(1) = None

\* ---------------------------------------------------------------------------
\* Claims about the retry budget
\* ---------------------------------------------------------------------------

\* C35: every change from Online to Reconnecting begins the count of attempts
\* and of failures at 0; a poll that finds the state Online and telemetry
\* silent begins such a cycle, also after a re-entry that succeeded; the state
\* becomes Offline only from Reconnecting with reconnect_attempts attempts of
\* the cycle made and failed; and a successful re-entry makes the state Online
\* and ends the cycle whether telemetry is fresh or not.
C35_BudgetPerCycle ==
    /\ [][(state = ONLINE /\ state' = RECONNECTING) =>
             (attempt' = 0 /\ failures' = 0)]_vars
    /\ [][(monPc = "sleep" /\ monPc' # "sleep" /\ state = ONLINE /\ ~telemetry_fresh) =>
             monPc' = "set_reconnecting"]_vars
    /\ [][(state' = OFFLINE /\ state # OFFLINE) =>
             /\ state = RECONNECTING
             /\ attempt = reconnect_attempts
             /\ failures = reconnect_attempts]_vars
    /\ [][(monPc = "set_online" /\ monPc' # "set_online") =>
             (state' = ONLINE /\ monPc' = "while")]_vars
    /\ [](failures <= attempt /\ attempt <= reconnect_attempts)

\* A cycle ended with a successful re-entry that replaced the heartbeat;
\* telemetry stayed silent, and the last attempt of a later cycle is being
\* made after all the attempts before it in that cycle failed.
C35_Witness ==
    /\ state = RECONNECTING /\ ~stop_flag /\ ~telemetry_fresh
    /\ hbStop # {}
    /\ monPc = "rc_auth"
    /\ attempt = reconnect_attempts /\ reconnect_attempts = 3
    /\ failures = 2

\* ---------------------------------------------------------------------------
\* Claims about the OSD callbacks
\* ---------------------------------------------------------------------------

\* What a callback calling the accessor reads from a cache holding exactly
\* the fields an OSD push carried.
SeenByCallback(cb, data) == Read(cb, data, data, None, data, data)

\* An OSD push with a dictionary as data is being handled.
OsdPushHandled(raw) == IsPush(raw) /\ raw.method = "osd_info_push"

\* C36: for every OSD push handled, each registered callback is invoked once,
\* in registration order, after the push is in the cache and with the lock
\* free: a callback that calls an accessor returns with the values of that
\* push, a callback that raises is swallowed without ending the loop, no
\* exception leaves _on_message, and the message handled after one whose
\* callback raised is processed as any other.
C36_CallbacksAfterCommit ==
    /\ [][handled' # handled =>
             LET raw == lastMsg'[1] IN
               IF OsdPushHandled(raw)
               THEN /\ Len(cbCalls') = Len(osd_callbacks)
                    /\ \A i \in 1..Len(osd_callbacks) :
                          IF osd_callbacks[i] = "raises"
                          THEN cbCalls'[i].outcome = "swallowed"
                          ELSE /\ cbCalls'[i].outcome = "returned"
                               /\ cbCalls'[i].value =
                                     SeenByCallback(osd_callbacks[i], raw.data)
               ELSE cbCalls' = <<>>]_vars
    /\ [][\A raw \in CallbackMessages :
             (handled' # handled /\ lastMsg' = Some(raw) /\ WellFormed(raw)
              /\ \E i \in DOMAIN cbCalls : cbCalls[i].outcome = "swallowed") =>
                PushFrame(raw)]_vars
    /\ [](~raised_out)

\* Two callbacks are registered, the first raises and the second reads the
\* position; an OSD push was handled with both invoked, and the push handled
\* after it has also invoked both, the second reading the later push's values.
C36_Witness ==
    /\ osd_callbacks = <<"raises", "get_position">>
    /\ handled = 2
    /\ prevPush["osd_info_push"] = Some(FullData("osd_info_push", 1))
    /\ lastMsg = Some(Push("osd_info_push", None, FullData("osd_info_push", 2)))
    /\ cbCalls = <<[outcome |-> "swallowed", value |-> <<>>],
                   [outcome |-> "returned", value |-> <<Some(2), Some(2), Some(2)>>]>>

\* ---------------------------------------------------------------------------
\* Claims about the order of the observer's calls
\* ---------------------------------------------------------------------------

\* C37: the calls of on_state_change begin in the order of the transitions
\* (the thread started first among those waiting is the one whose call begins
\* next), and once every started thread's call has begun, the state told last
\* is the manager's state.
C37_DeliveredInOrder ==
    /\ [][(begun' # begun /\ begun' # <<>>) =>
             begun' = Append(begun, Len(begun) + 1)]_vars
    /\ []((begun # <<>> /\ NotBegun = {}) => told = Some(state))

\* Both calls of a cycle that went to Reconnecting and back to Online have
\* begun, the one for Online first: the observer was told Reconnecting last
\* while the manager is Online.
C37_ToldStaleState ==
    /\ state = ONLINE
    /\ notified = <<RECONNECTING, ONLINE>>
    /\ begun = <<2, 1>>
    /\ told = Some(RECONNECTING)

\* ---------------------------------------------------------------------------
\* Claims about take_photo_wait
\* ---------------------------------------------------------------------------

\* C38: a call that returned reports the result of a drc_camera_photo_take
\* message with its own seq; every message that comes while a call waits
\* reaches MQTTClient._on_message; a call that returns or raises leaves as
\* client.on_message the handler it found; and no waiting call, overlapping
\* another or not, misses a reply with its seq.
C38_PhotoReplyMatched ==
    /\ [](\A p \in Photos : photoPc[p] = "returned" =>
             /\ result_box[p] # None
             /\ result_box[p][1].seq = photoSeq[p])
    /\ [](lastInbound # None => lastInbound[1].forwarded)
    /\ [][\A p \in Photos :
             (photoPc[p] = "waiting" /\ photoPc'[p] # "waiting") =>
                CurrentHandler' = original_on_message[p]]_vars
    /\ [](missed = {})

\* Two calls overlapped: the second captured the first's closure, the first
\* returned and put MQTTClient._on_message back, and the reply of the second
\* came while it waited without reaching its closure.
C38_OverlapMissesReply ==
    /\ photoPc = <<"returned", "waiting">>
    /\ original_on_message = <<None, Some(1)>>
    /\ photoSeq = <<1, 2>>
    /\ missed = {2}
    /\ ~done[2]
    /\ lastInbound # None /\ lastInbound[1].forwarded

\* ---------------------------------------------------------------------------
\* Claims about the frequency while telemetry is silent
\* ---------------------------------------------------------------------------

\* C39: the arrival window changes only when an OSD push is inserted, so
\* every step that inserts none (time passing, another push, an OSD push that
\* fails) leaves what get_osd_frequency returns as it was, whatever is_online
\* returns.
C39_FrequencyKeptInSilence ==
    [][~(handled' # handled /\ OsdPushHandled(lastMsg'[1])) =>
          (osd_timestamps' = osd_timestamps /\ get_osd_frequency' = get_osd_frequency)]_vars

\* Two OSD pushes came a second apart and then none: is_online(2) has become
\* false, the oldest timestamp is now older than the window, and
\* get_osd_frequency still returns the 1 Hz of the last push.
C39_Witness ==
    /\ osd_timestamps = <<1, 2>>
    /\ clock = 4
    /\ ~is_online(2)
    /\ clock - osd_timestamps[1] > freq_window
    /\ get_osd_frequency = <<1, 1>>

\* ---------------------------------------------------------------------------
\* Claims about monitor_flyto_progress
\* ---------------------------------------------------------------------------

\* C40: monitor_flyto_progress returns the cached progress record and its
\* status whatever fly_to_id the record carries and whatever task was issued
\* last.
C40_MonitorReturnsCached ==
    [][monitored' # monitored =>
          /\ monitored'[1].progress = flyto_progress
          /\ monitored'[1].status = flyto_progress.status]_vars

\* Task W ended with wayline_ok, task X was issued and no event of X has
\* arrived: monitor_flyto_progress returned wayline_ok, the status W left.
C40_Witness ==
    /\ issued_fly_to_id = Some("X")
    /\ flyto_progress.fly_to_id = Some("W")
    /\ monitored # None
    /\ monitored[1].task = Some("X")
    /\ monitored[1].status = Some("wayline_ok")
    /\ monitored[1].progress.fly_to_id = Some("W")

====
